---- MODULE Spec2Model ----
\* Connection cache and lifecycle state machine of next-mongo-connector
\* (src/src/connector.ts), as a state machine over the event loop's
\* suspension points.
EXTENDS Integers, Sequences, FiniteSets, TLC

\* ------------------------------------------------------------------ bounds
MaxEst == 2        \* establishments (cache-miss connect calls) in one run
MaxOps == 3        \* close, cleanup and reset calls plus driver events in one run

\* ------------------------------------------------------- program constants
DEFAULT_CONNECTION_NAME == "default"
MAX_RETRIES == 3
RETRY_DELAY == 5000

\* ------------------------------------------------------------- input sets
Names == {DEFAULT_CONNECTION_NAME, "b", "__proto__"}

Ids == 1..MaxEst

VARIABLES
  cache,      \* globalThis.__NEXT_MONGO_CONNECTOR__.connections: entries [name, rid]
  gen,        \* identity of the global cache object; cleanup() discards it
  info,       \* ConnectionInfo objects, by record id
  conn,       \* CachedConnection.connection, by record id
  task,       \* connectWithRetry activations (the record's promise), by record id
  handle,     \* the driver Connection of the activation's current attempt
  calls,      \* connect calls made so far and what each settled with
  nextId,
  closeTask,  \* closeConnection calls suspended in `await connection.close()`
  bulk,       \* closeAllConnections / cleanup suspended in `await Promise.all`
  refused,    \* outcome of the latest connect call that validation refused
  nOps,       \* close, cleanup and reset calls and driver events so far
  shutdownHandlersRegistered,
  handlerRegs, \* listeners registered per termination signal
  fired,      \* the callback the latest driver-event listener invoked
  threw,      \* the latest exception a user callback threw
  multi,      \* the connectMultiDb call in progress
  proc,       \* the process: running, shutting down on a signal, or exited
  health,     \* the healthCheck call in progress and its result
  monitor,    \* the timer of startConnectionMonitoring and what its callback got
  probe       \* the input of the read or pure function under test and what it returned

vars == <<cache, gen, info, conn, task, handle, calls, nextId,
          closeTask, bulk, refused, nOps,
          shutdownHandlersRegistered, handlerRegs,
          fired, threw, multi, proc, health, monitor, probe>>

\* ------------------------------------------------------------ value shapes
NoHandle == [est |-> 0, attempt |-> 0]
Handle(e, k) == [est |-> e, attempt |-> k]

NoError == [text |-> "", n |-> 0, lastText |-> "", lastN |-> 0, detail |-> <<>>]
\* error raised by the driver during attempt k
DriverError(text, k) == [text |-> text, n |-> k, lastText |-> "", lastN |-> 0, detail |-> <<>>]

\* ------------------------------------------------- Map<string, Cached...>
MapHas(m, k) == \E x \in m : x.name = k
MapGet(m, k) == (CHOOSE x \in m : x.name = k).rid
MapSet(m, k, v) == {x \in m : x.name # k} \cup {[name |-> k, rid |-> v]}
MapDelete(m, k) == {x \in m : x.name # k}
MapKeys(m) == {x.name : x \in m}

\* ================================================================ strings
\* A string is a sequence of one-character strings.
Digits == {"0", "1", "2", "3", "4", "5", "6", "7", "8", "9"}
DigitSeq == <<"0", "1", "2", "3", "4", "5", "6", "7", "8", "9">>
Alpha == {"a", "b", "c", "d", "e", "f", "g", "h", "i", "j", "k", "l", "m",
          "n", "o", "p", "q", "r", "s", "t", "u", "v", "w", "x", "y", "z"}
DigitVal(c) == (CHOOSE i \in 1..10 : DigitSeq[i] = c) - 1

Take(s, n) == SubSeq(s, 1, n)
Drop(s, n) == SubSeq(s, n + 1, Len(s))
StartsWith(s, p) == Len(p) <= Len(s) /\ Take(s, Len(p)) = p
EndsWith(s, p) == Len(p) <= Len(s) /\ Drop(s, Len(s) - Len(p)) = p
Includes(s, p) == \E i \in 1..(Len(s) - Len(p) + 1) : SubSeq(s, i, i + Len(p) - 1) = p
\* String.prototype.indexOf, 1-based; 0 when absent
IndexOf(s, c) ==
  IF \E i \in 1..Len(s) : s[i] = c
  THEN CHOOSE i \in 1..Len(s) : s[i] = c /\ \A j \in 1..(i - 1) : s[j] # c
  ELSE 0
LastIndexOf(s, c) ==
  IF \E i \in 1..Len(s) : s[i] = c
  THEN CHOOSE i \in 1..Len(s) : s[i] = c /\ \A j \in (i + 1)..Len(s) : s[j] # c
  ELSE 0
\* first position whose character is in cs; Len(s) + 1 when there is none
FirstOf(s, cs) ==
  CHOOSE i \in 1..(Len(s) + 1) :
    /\ (i = Len(s) + 1 \/ s[i] \in cs)
    /\ \A j \in 1..(i - 1) : s[j] \notin cs
\* first position whose character is NOT in cs; Len(s) + 1 when there is none
FirstNotOf(s, cs) ==
  CHOOSE i \in 1..(Len(s) + 1) :
    /\ (i = Len(s) + 1 \/ s[i] \notin cs)
    /\ \A j \in 1..(i - 1) : s[j] \in cs
\* String.prototype.trim over the blank of the alphabet
Trim(s) ==
  IF \A i \in 1..Len(s) : s[i] = " " THEN <<>>
  ELSE LET a == FirstNotOf(s, {" "})
           b == CHOOSE i \in 1..Len(s) : s[i] # " " /\ \A j \in (i + 1)..Len(s) : s[j] = " "
       IN SubSeq(s, a, b)
RECURSIVE ParseInt(_)
\* parseInt(digits, 10) of a non-empty run of digits
ParseInt(s) ==
  IF s = <<>> THEN 0 ELSE ParseInt(Take(s, Len(s) - 1)) * 10 + DigitVal(s[Len(s)])
RECURSIVE StripZeros(_)
StripZeros(s) == IF Len(s) > 1 /\ s[1] = "0" THEN StripZeros(Drop(s, 1)) ELSE s

\* literals the validator compares against
sMongodb == <<"m", "o", "n", "g", "o", "d", "b">>
sMongodbSrv == sMongodb \o <<"+", "s", "r", "v">>
sSep == <<":", "/", "/">>
sJavascript == <<"j", "a", "v", "a", "s", "c", "r", "i", "p", "t", ":">>
sData == <<"d", "a", "t", "a", ":">>
sLocalhost == <<"l", "o", "c", "a", "l", "h", "o", "s", "t">>
sLoopback == <<"1", "2", "7", ".", "0", ".", "0", ".", "1">>
sInvalid == <<"i", "n", "v", "a", "l", "i", "d">>
sHost == <<"h", "o", "s", "t">>
\* an allow-list of protocols that lets http through
AllowsHttp == {sMongodb, sMongodbSrv, <<"h", "t", "t", "p">>}
ALLOWED_PROTOCOLS == {sMongodb, sMongodbSrv}

\* ================================================= new URL(uri) (WHATWG)
\* Modelled for the alphabet above: no upper case, no percent-encoding, no
\* IPv6 literal, no backslash, no dot-segment in the path, no file: scheme.
SchemeChars == Alpha \cup Digits \cup {"+", "-", "."}
ForbiddenHostChars == {" ", "#", "/", ":", "<", ">", "?", "@", "[", "]", "^", "|"}
SpecialSchemes ==
  {<<"h", "t", "t", "p">>, <<"h", "t", "t", "p", "s">>, <<"f", "t", "p">>,
   <<"w", "s">>, <<"w", "s", "s">>}
DefaultPort(scheme) ==
  IF scheme \in {<<"h", "t", "t", "p">>, <<"w", "s">>} THEN 80
  ELSE IF scheme \in {<<"h", "t", "t", "p", "s">>, <<"w", "s", "s">>} THEN 443
  ELSE IF scheme = <<"f", "t", "p">> THEN 21
  ELSE -1
URLFailure ==
  [ok |-> FALSE, protocol |-> <<>>, username |-> <<>>, password |-> <<>>,
   hostname |-> <<>>, port |-> <<>>, pathname |-> <<>>, search |-> <<>>, hash |-> <<>>]
\* path, query and fragment of the part after the authority
URLTail(scheme, special, username, password, hostname, port, tail) ==
  LET pEnd == FirstOf(tail, {"?", "#"})
      path == Take(tail, pEnd - 1)
      afterPath == Drop(tail, pEnd - 1)
      hashAt == IndexOf(afterPath, "#")
      queryPart == IF hashAt = 0 THEN afterPath ELSE Take(afterPath, hashAt - 1)
      fragPart == IF hashAt = 0 THEN <<>> ELSE Drop(afterPath, hashAt - 1)
  IN [ok |-> TRUE,
      protocol |-> scheme \o <<":">>,
      username |-> username, password |-> password,
      hostname |-> hostname, port |-> port,
      pathname |-> IF special /\ path = <<>> THEN <<"/">> ELSE path,
      search |-> IF Len(queryPart) <= 1 THEN <<>> ELSE queryPart,
      hash |-> IF Len(fragPart) <= 1 THEN <<>> ELSE fragPart]
\* authority = [userinfo "@"] host [":" port], then the tail
URLAuthority(scheme, special, r) ==
  LET aEnd == FirstOf(r, {"/", "?", "#"})
      auth == Take(r, aEnd - 1)
      tail == Drop(r, aEnd - 1)
      at == LastIndexOf(auth, "@")
      creds == IF at = 0 THEN <<>> ELSE Take(auth, at - 1)
      hostport == Drop(auth, at)
      cColon == IndexOf(creds, ":")
      username == IF cColon = 0 THEN creds ELSE Take(creds, cColon - 1)
      password == IF cColon = 0 THEN <<>> ELSE Drop(creds, cColon)
      hColon == IndexOf(hostport, ":")
      host == IF hColon = 0 THEN hostport ELSE Take(hostport, hColon - 1)
      portStr == IF hColon = 0 THEN <<>> ELSE Drop(hostport, hColon)
      portOk == /\ \A i \in 1..Len(portStr) : portStr[i] \in Digits
                /\ Len(StripZeros(portStr)) <= 5
                /\ ParseInt(portStr) <= 65535
      hostOk == /\ \A i \in 1..Len(host) : host[i] \notin ForbiddenHostChars
                /\ (host = <<>> => ~special /\ at = 0 /\ hColon = 0)
  IN IF ~hostOk \/ ~portOk THEN URLFailure
     ELSE URLTail(scheme, special, username, password, host,
                  IF portStr = <<>> \/ ParseInt(portStr) = DefaultPort(scheme)
                  THEN <<>> ELSE StripZeros(portStr),
                  tail)
ParseURL(raw) ==
  LET s == Trim(raw)
      sEnd == FirstNotOf(s, SchemeChars)
  IN IF s = <<>> \/ s[1] \notin Alpha \/ sEnd > Len(s) \/ s[sEnd] # ":" THEN URLFailure
     ELSE LET scheme == Take(s, sEnd - 1)
              rest == Drop(s, sEnd)
          IN IF scheme \in SpecialSchemes
             THEN URLAuthority(scheme, TRUE, Drop(rest, FirstNotOf(rest, {"/"}) - 1))
             ELSE IF StartsWith(rest, <<"/", "/">>)
             THEN URLAuthority(scheme, FALSE, Drop(rest, 2))
             ELSE URLTail(scheme, FALSE, <<>>, <<>>, <<>>, <<>>, rest)

\* ====================================================== Security Validator
NewResult == [isValid |-> TRUE, errors |-> <<>>, warnings |-> <<>>]
Msg(text, arg) == [text |-> text, arg |-> arg]
\* an error pushed without clearing isValid
AddErrorOnly(r, m) == [r EXCEPT !.errors = Append(@, m)]
AddError(r, m) == [r EXCEPT !.errors = Append(@, m), !.isValid = FALSE]
AddWarning(r, m) == [r EXCEPT !.warnings = Append(@, m)]
AddErrorIf(c, r, m) == IF c THEN AddError(r, m) ELSE r
AddWarningIf(c, r, m) == IF c THEN AddWarning(r, m) ELSE r

\* uri.match(/:\d+[^0-9]/): positions of a ':' followed by digits and one more character
PortMatches(uri) ==
  {i \in 1..Len(uri) :
     /\ uri[i] = ":"
     /\ i + 1 <= Len(uri) /\ uri[i + 1] \in Digits
     /\ FirstNotOf(Drop(uri, i), Digits) <= Len(uri) - i}
\* the digits of the leftmost match
PortMatchDigits(uri) ==
  LET i == CHOOSE k \in PortMatches(uri) : \A j \in PortMatches(uri) : k <= j
      after == Drop(uri, i)
  IN Take(after, FirstNotOf(after, Digits) - 1)
PortNumberInvalid(digits) ==
  Len(StripZeros(digits)) > 5 \/ ParseInt(digits) < 1 \/ ParseInt(digits) > 65535

\* a wildcard entry matched by the mere ending of the host name
HostAllowedBySuffix(hostname, allowedHosts) ==
  \E i \in 1..Len(allowedHosts) :
    IF StartsWith(allowedHosts[i], <<"*", ".">>)
    THEN EndsWith(hostname, Drop(allowedHosts[i], 2))
    ELSE hostname = allowedHosts[i]
\* allowedHosts.some(...)
HostAllowed(hostname, allowedHosts) ==
  \E i \in 1..Len(allowedHosts) :
    LET allowedHost == allowedHosts[i]
    IN IF StartsWith(allowedHost, <<"*", ".">>)
       THEN LET domain == Drop(allowedHost, 2)
            IN /\ Len(hostname) > Len(domain) + 1
               /\ EndsWith(hostname, <<".">> \o domain)
       ELSE hostname = allowedHost

\* a pattern looked for at the start of the string only
SuspiciousScheme(uri) == StartsWith(uri, sJavascript) \/ StartsWith(uri, sData)
\* uri.includes('javascript:') || uri.includes('data:')
Suspicious(uri) == Includes(uri, sJavascript) \/ Includes(uri, sData)

\* the body of the try block, after new URL(uri) succeeded
ValidateParsed(uri, allowedHosts, env, url) ==
  LET r0 == NewResult
      r1 == AddErrorIf(Take(url.protocol, Len(url.protocol) - 1) \notin ALLOWED_PROTOCOLS,
                       r0, Msg("Invalid protocol: {arg}. Allowed: mongodb, mongodb+srv", url.protocol))
      r2 == AddErrorIf(Len(allowedHosts) > 0 /\ ~HostAllowed(url.hostname, allowedHosts),
                       r1, Msg("Host {arg} is not in the allowed hosts list", url.hostname))
      r3 == AddErrorIf(Suspicious(uri),
                       r2, Msg("Potentially malicious URI detected", <<>>))
      r4 == AddWarningIf(env = "production" /\ url.hostname \in {sLocalhost, sLoopback},
                         r3, Msg("Using localhost in production environment", <<>>))
      r5 == AddWarningIf(url.username # <<>> \/ url.password # <<>>,
                         r4, Msg("Credentials detected in URI. Consider using environment variables", <<>>))
      afterHostname == url.pathname \o url.search \o url.hash
  IN IF /\ url.hostname \in {sInvalid, sHost}
        /\ url.port = <<>> /\ afterHostname \in {<<"/">>, <<>>}
     THEN AddError(r5, Msg("Invalid URI format: malformed hostname", <<>>))
     ELSE IF url.port = <<>> /\ url.pathname = <<"/">> /\ url.search = <<>> /\ url.hash = <<>>
     THEN AddError(r5, Msg("Invalid URI format: missing database name or path", <<>>))
     ELSE r5

\* MongoSecurityValidator.validateURI; env is process.env.NODE_ENV
validateURI(uri, allowedHosts, env) ==
  LET atIndex == IndexOf(uri, "@")
      afterAt == Drop(uri, atIndex)
      protoLen == IF StartsWith(uri, sMongodb \o sSep) THEN Len(sMongodb \o sSep)
                  ELSE IF StartsWith(uri, sMongodbSrv \o sSep) THEN Len(sMongodbSrv \o sSep)
                  ELSE 0
      url == ParseURL(uri)
  IN IF uri = <<>>
     THEN AddError(NewResult, Msg("MongoDB URI is required and must be a string", <<>>))
     ELSE IF Trim(uri) = <<>> \/ uri = sMongodb \o sSep \/ uri = sMongodbSrv \o sSep
     THEN AddError(NewResult, Msg("Invalid URI format: incomplete URI", <<>>))
     ELSE IF Includes(uri, <<"@">>) /\ ~Includes(uri, sSep)
     THEN AddError(NewResult, Msg("Invalid URI format: malformed URI with credentials but no protocol", <<>>))
     ELSE IF atIndex # 0 /\ (afterAt = <<>> \/ StartsWith(afterAt, <<":">>) \/ StartsWith(afterAt, <<"/">>))
     THEN AddError(NewResult, Msg("Invalid URI format: missing hostname after credentials", <<>>))
     ELSE IF protoLen # 0 /\ StartsWith(Drop(uri, protoLen), <<"@">>)
     THEN AddError(NewResult, Msg("Invalid URI format: @ found without username/password", <<>>))
     ELSE IF EndsWith(uri, <<"@">>)
     THEN AddError(NewResult, Msg("Invalid URI format: missing hostname after credentials", <<>>))
     ELSE IF PortMatches(uri) # {} /\ PortNumberInvalid(PortMatchDigits(uri))
     THEN AddError(NewResult, Msg("Invalid URI format: invalid port number", <<>>))
     ELSE IF ~url.ok
     THEN AddError(NewResult, Msg("Invalid URI format: Invalid URL", <<>>))
     ELSE ValidateParsed(uri, allowedHosts, env, url)

\* the production-only checks applied in every mode
IsAnyMode(env) == TRUE
\* process.env.NODE_ENV === 'production'
IsProduction(env) == env = "production"

\* MongoSecurityValidator.validateOptions; options fields are "unset", "true"
\* or "false", sizes are numbers with 0 for unset
validateOptions(options, env) ==
  LET r0 == NewResult
      r1 == AddErrorIf(IsProduction(env) /\ (options.ssl = "false" \/ options.tls = "false"),
                       r0, Msg("SSL/TLS must be enabled in production", <<>>))
      r2 == AddErrorIf(IsProduction(env) /\ options.tlsAllowInvalidCertificates = "true",
                       r1, Msg("Invalid certificates should not be allowed in production", <<>>))
      r3 == AddErrorIf(IsProduction(env) /\ options.tlsAllowInvalidHostnames = "true",
                       r2, Msg("Invalid hostnames should not be allowed in production", <<>>))
      r4 == AddWarningIf(options.maxPoolSize # 0 /\ options.maxPoolSize > 100,
                         r3, Msg("Very large connection pool size detected", <<>>))
  IN AddWarningIf(options.bufferMaxEntries # 0 /\ options.bufferMaxEntries > 1000,
                  r4, Msg("Very large buffer size detected", <<>>))

\* ------------------------------------------------------------ validator inputs
\* a target assembled from its parts: scheme, separator, credentials (with
\* their @), host, port (with its colon) and the rest
Target(scheme, sep, creds, host, port, tail) ==
  [scheme |-> scheme, sep |-> sep, creds |-> creds, host |-> host, port |-> port, tail |-> tail]
\* the string handed to validateURI
Compose(t) == t.scheme \o t.sep \o t.creds \o t.host \o t.port \o t.tail
sHttp == <<"h", "t", "t", "p">>
sDbIo == <<"d", "b", ".", "i", "o">>
TargetSchemes == {sMongodb, sMongodbSrv, sHttp, Take(sJavascript, 10), Take(sData, 4)}
TargetSeps == {sSep, <<":">>}
\* no credentials, user and password, user only, a password that starts
\* with digits, a user name that is a suspicious pattern
sUsrPwd == <<"u", "s", "r", ":", "p", "w", "d", "@">>
TargetCreds ==
  {<<>>, sUsrPwd, <<"u", "s", "r", "@">>,
   <<"u", "s", "r", ":", "9", "9", "9", "9", "9", "x", "@">>, sData \o <<"x", "@">>}
\* the listed host, a subdomain of it, a host that only ends like it, a
\* host that continues after it, and localhost
TargetHosts == {sDbIo, <<"a", ".">> \o sDbIo, <<"x">> \o sDbIo, sDbIo \o <<".", "x">>, sLocalhost}
TargetPorts == {<<>>, <<":", "2", "7", "0", "1", "7">>, <<":", "9", "9", "9", "9", "9">>}
TargetTails == {<<>>, <<"/">>, <<"/", "a", "p", "p">>, <<"/">> \o sJavascript \o <<"x">>}
Targets ==
  {Target(sc, sp, c, h, p, t) :
     sc \in TargetSchemes, sp \in TargetSeps, c \in TargetCreds,
     h \in TargetHosts, p \in TargetPorts, t \in TargetTails}
\* no allow-list, one exact host, one wildcard entry
AllowLists == {<<>>, <<sDbIo>>, <<(<<"*", ".">> \o sDbIo)>>}
Modes == {"production", "development", "test"}

\* ====================================================== Connection Manager
\* ------------------------------------------------------------ sample inputs
uGood == sMongodb \o sSep \o <<"d", "b", ".", "i", "o", "/", "a", "p", "p">>
uOther == sMongodb \o sSep \o <<"x", ".", "i", "o", "/", "a", "p", "p">>
uHttp == <<"h", "t", "t", "p">> \o sSep \o <<"d", "b", ".", "i", "o", "/", "a", "p", "p">>
uNoDb == sMongodb \o sSep \o <<"d", "b", ".", "i", "o", "/">>
NoDriverOptions ==
  [ssl |-> "unset", tls |-> "unset", tlsAllowInvalidCertificates |-> "unset",
   tlsAllowInvalidHostnames |-> "unset", maxPoolSize |-> 0, bufferMaxEntries |-> 0,
   serverSelectionTimeoutMS |-> 0, socketTimeoutMS |-> 0, connectTimeoutMS |-> 0,
   heartbeatFrequencyMS |-> 0, retryWrites |-> "unset", retryReads |-> "unset"]
ConnectArgs(uri, allowedHosts, options, env) ==
  [uri |-> uri, allowedHosts |-> allowedHosts, options |-> options, env |-> env]
\* arguments that pass both validations
ValidArgs ==
  {ConnectArgs(uGood, <<>>, NoDriverOptions, "production"),
   ConnectArgs(uGood, <<(<<"d", "b", ".", "i", "o">>)>>,
               [NoDriverOptions EXCEPT !.ssl = "false"], "development")}
\* arguments that fail validateURI or validateOptions
InvalidArgs ==
  {ConnectArgs(uHttp, <<>>, NoDriverOptions, "development"),
   ConnectArgs(uOther, <<(<<"d", "b", ".", "i", "o">>)>>, NoDriverOptions, "production"),
   ConnectArgs(uNoDb, <<>>, NoDriverOptions, "production"),
   ConnectArgs(uGood, <<>>, [NoDriverOptions EXCEPT !.ssl = "false"], "production"),
   ConnectArgs(uGood, <<>>,
               [NoDriverOptions EXCEPT !.tlsAllowInvalidCertificates = "true",
                                       !.maxPoolSize = 200], "production")}
\* valid arguments with another target
aOther == ConnectArgs(uOther, <<>>, NoDriverOptions, "production")
AllArgs == ValidArgs \cup InvalidArgs \cup {aOther}
\* the validations connect runs, for every sample input
UriValidation == [a \in AllArgs |-> validateURI(a.uri, a.allowedHosts, a.env)]
OptionsValidation == [a \in AllArgs |-> validateOptions(a.options, a.env)]

\* MongoConnectionOptions: connectionName ("" = unset), maxRetries and
\* retryDelay (0 = unset), and whether async callbacks are passed
UserOptions(connectionName, maxRetries, retryDelay, cb) ==
  [connectionName |-> connectionName, maxRetries |-> maxRetries,
   retryDelay |-> retryDelay, cb |-> cb]
LifecycleOptions ==
  {UserOptions("", 2, 0, FALSE), UserOptions("b", 1, 0, TRUE)}
RetryLoopOptions ==
  {UserOptions("", -1, 0, FALSE), UserOptions("", 0, 0, TRUE),
   UserOptions("b", 1, 2000, TRUE), UserOptions("", 1, 2000, FALSE),
   UserOptions("", 3, 2000, FALSE)}

\* ------------------------------------------------------------ record shapes
NoInfo ==
  [state |-> "none", connectionName |-> "", retryCount |-> 0,
   connectedAt |-> FALSE, lastError |-> NoError]
NoTask ==
  [pc |-> "idle", gen |-> 0, attempt |-> 0, maxRetries |-> 0, retryDelay |-> 0,
   cb |-> FALSE, dials |-> 0, pauses |-> <<>>, error |-> NoError,
   result |-> NoHandle, failure |-> NoError]
NoConn ==
  [id |-> NoHandle, readyState |-> 0, listening |-> FALSE,
   closeRequested |-> FALSE, closed |-> FALSE]
NoClose == [pc |-> "idle", rid |-> 0, gen |-> 0, grp |-> ""]
NoBulk == [pc |-> "idle", kind |-> "", gen |-> 0]

Call(rid, creator, kind, h, err) ==
  [rid |-> rid, creator |-> creator, kind |-> kind, handle |-> h, error |-> err]
\* `Security validation failed: ...` / `Options validation failed: ...`
ValidationError(text, errors) ==
  [text |-> text, n |-> 0, lastText |-> "", lastN |-> 0, detail |-> errors]
\* `Failed to connect after ${maxRetries} attempts. Last error: ${error.message}`
ExhaustedError(maxRetries, last) ==
  [text |-> "Failed to connect after {n} attempts. Last error: {last}",
   n |-> maxRetries, lastText |-> last.text, lastN |-> last.n, detail |-> <<>>]
UnexpectedError ==
  [text |-> "Unexpected error in connection retry logic",
   n |-> 0, lastText |-> "", lastN |-> 0, detail |-> <<>>]

\* ------------------------------------------------------------ read-only API
\* getConnection: cachedConnection?.connection || null
getConnection(n) == IF MapHas(cache, n) THEN conn[MapGet(cache, n)] ELSE NoHandle
\* getConnectionInfo: cachedConnection?.info || null
getConnectionInfo(n) == IF MapHas(cache, n) THEN info[MapGet(cache, n)] ELSE NoInfo
\* connection.readyState of a handle reference held by a record
ReadyStateOf(h) ==
  IF h # NoHandle /\ handle[h.est].id = h THEN handle[h.est].readyState ELSE 0
isConnected(n) ==
  IF getConnection(n) = NoHandle \/ ReadyStateOf(getConnection(n)) # 1
  THEN FALSE
  ELSE getConnectionInfo(n).state = "connected"

\* a record counted as active because its state says connected
IsActiveByState(x) == info[x.rid].state = "connected"
\* `c.connection?.readyState === 1`
IsActive(x) == ReadyStateOf(conn[x.rid]) = 1
\* getPoolStats: counts over Array.from(cache.connections.values())
getPoolStats ==
  [totalConnections |-> Cardinality(cache),
   activeConnections |-> Cardinality({x \in cache : IsActive(x)}),
   pendingConnections |-> Cardinality({x \in cache : info[x.rid].state = "connecting"}),
   failedConnections |-> Cardinality({x \in cache : info[x.rid].state = "error"}),
   connectionNames |-> MapKeys(cache)]

\* a callback's exception leaves the try block around its call
CallbackErrorEscapes == TRUE
\* `catch (callbackError) { console.error(...) }`: the exception stops there
CallbackErrorRethrown == FALSE
\* the exception a user callback throws
CallbackError == DriverError("callback failed", 0)
NoThrow == [cb |-> "none", rid |-> 0, escaped |-> FALSE]
Thrown(cb, e) == [cb |-> cb, rid |-> e, escaped |-> CallbackErrorRethrown]
NoFired == [cb |-> "none", rid |-> 0]
\* no connectMultiDb call, a running process, no healthCheck call, no options
NoMulti ==
  [pc |-> "idle", batch |-> <<>>, next |-> 0, rids |-> <<>>, failed |-> "", gen |-> 0,
   error |-> NoError, before |-> {}]
Running == [pc |-> "running", closePromises |-> {}]
\* no monitoring timer: `reported` has no key, the callback got nothing
NoMonitor ==
  [on |-> FALSE, reported |-> [n \in Names |-> "absent"], log |-> [n \in Names |-> <<>>]]
NoHealth == [pc |-> "idle", name |-> "", rid |-> 0, result |-> <<>>]
NoProbe == [pc |-> "idle", options |-> <<>>, env |-> "", effective |-> <<>>]

\* the operations that are not part of a step
Idle == <<multi, proc, health, monitor, probe>>
Aux == <<fired, threw, Idle>>

\* the state before any call, the options under test aside
Start ==
  /\ cache = {}
  /\ gen = 0
  /\ info = [e \in Ids |-> NoInfo]
  /\ conn = [e \in Ids |-> NoHandle]
  /\ task = [e \in Ids |-> NoTask]
  /\ handle = [e \in Ids |-> NoConn]
  /\ calls = {}
  /\ nextId = 1
  /\ closeTask = [n \in Names |-> NoClose]
  /\ bulk = NoBulk
  /\ refused = NoError
  /\ nOps = 0
  /\ shutdownHandlersRegistered = FALSE
  /\ handlerRegs = 0
  /\ fired = NoFired
  /\ threw = NoThrow
  /\ multi = NoMulti
  /\ proc = Running
  /\ health = NoHealth
  /\ monitor = NoMonitor

Init == Start /\ probe = NoProbe

\* ------------------------------------------------------------ connect
\* settle every call that awaits the promise of record e
SettleCalls(e, kind, h, err) ==
  {IF c.rid = e /\ c.kind = "pending" THEN Call(e, c.creator, kind, h, err) ELSE c : c \in calls}

\* registerShutdownHandlers
RegisterShutdownHandlers ==
  IF shutdownHandlersRegistered
  THEN UNCHANGED <<shutdownHandlersRegistered, handlerRegs>>
  ELSE /\ handlerRegs' = handlerRegs + 1
       /\ shutdownHandlersRegistered' = TRUE

\* the number of retries as given, without a default
RetriesAsGiven(maxRetries) == maxRetries
\* userOptions.maxRetries || SECURITY_CONFIG.MAX_RETRIES
EffectiveRetries(maxRetries) == IF maxRetries = 0 THEN MAX_RETRIES ELSE maxRetries
\* userOptions.retryDelay || SECURITY_CONFIG.RETRY_DELAY
EffectiveDelay(retryDelay) == IF retryDelay = 0 THEN RETRY_DELAY ELSE retryDelay
\* options.connectionName || DEFAULT_CONNECTION_NAME
EffectiveName(connectionName) ==
  IF connectionName = "" THEN DEFAULT_CONNECTION_NAME ELSE connectionName

\* a connect that skipped both gates
ValidationSkipped(uriValidation, optionsValidation) == TRUE
\* the two validation gates of connect
ValidationPassed(uriValidation, optionsValidation) ==
  uriValidation.isValid /\ optionsValidation.isValid
\* a connect that never looked the name up
CacheNeverHit(n) == FALSE
\* cache.connections.get(connectionName) is truthy
CacheHit(n) == MapHas(cache, n)

\* connect rejects before touching the cache
ConnectInvalidCall(a) ==
  LET uv == UriValidation[a]
      ov == OptionsValidation[a]
  IN /\ ~ValidationPassed(uv, ov)
     /\ refused' = IF ~uv.isValid
                    THEN ValidationError("Security validation failed", uv.errors)
                    ELSE ValidationError("Options validation failed", ov.errors)
     /\ UNCHANGED <<cache, gen, info, conn, task, handle, calls, nextId, closeTask, bulk,
                    nOps, shutdownHandlersRegistered, handlerRegs,
                    fired, threw, proc, health, monitor, probe>>

\* connect finds a record under the name and returns its promise
ConnectHitCall(a, o) ==
  LET n == EffectiveName(o.connectionName)
      e == MapGet(cache, n)
  IN /\ ValidationPassed(UriValidation[a], OptionsValidation[a])
     /\ CacheHit(n)
     /\ RegisterShutdownHandlers
     /\ calls' = calls \cup
          {IF task[e].pc = "resolved" THEN Call(e, FALSE, "ok", task[e].result, NoError)
           ELSE IF task[e].pc = "rejected" THEN Call(e, FALSE, "err", NoHandle, task[e].failure)
           ELSE Call(e, FALSE, "pending", NoHandle, NoError)}
     /\ UNCHANGED <<cache, gen, info, conn, task, handle, nextId, closeTask, bulk,
                    refused, nOps, fired, threw, proc, health, monitor, probe>>

\* connect creates the record, starts connectWithRetry and caches the record
ConnectMissCall(a, o) ==
  LET n == EffectiveName(o.connectionName)
      e == nextId
      retries == EffectiveRetries(o.maxRetries)
  IN /\ ValidationPassed(UriValidation[a], OptionsValidation[a])
     /\ ~CacheHit(n)
     /\ nextId <= MaxEst
     /\ RegisterShutdownHandlers
     /\ nextId' = nextId + 1
     /\ info' = [info EXCEPT ![e] = [NoInfo EXCEPT !.state = "connecting", !.connectionName = n]]
     /\ IF 1 <= retries
        THEN \* the loop's first createConnection is called before connect caches the record
             /\ task' = [task EXCEPT ![e] =
                  [NoTask EXCEPT !.pc = "dial", !.gen = gen, !.attempt = 1,
                                 !.maxRetries = retries,
                                 !.retryDelay = EffectiveDelay(o.retryDelay),
                                 !.cb = o.cb, !.dials = 1]]
             /\ cache' = MapSet(cache, n, e)
             /\ calls' = calls \cup {Call(e, TRUE, "pending", NoHandle, NoError)}
        ELSE \* the loop body never runs: the promise is rejected, the record
             \* is cached and removed again when connect resumes
             /\ task' = [task EXCEPT ![e] =
                  [NoTask EXCEPT !.pc = "rejected", !.gen = gen, !.maxRetries = retries,
                                 !.retryDelay = EffectiveDelay(o.retryDelay),
                                 !.cb = o.cb, !.failure = UnexpectedError]]
             /\ cache' = MapDelete(MapSet(cache, n, e), n)
             /\ calls' = calls \cup {Call(e, TRUE, "err", NoHandle, UnexpectedError)}
     /\ UNCHANGED <<gen, conn, handle, closeTask, bulk, refused, nOps,
                    fired, threw, proc, health, monitor, probe>>

\* the three outcomes of a connect call made by the application itself
ConnectInvalid(a) == ConnectInvalidCall(a) /\ UNCHANGED multi
ConnectHit(a, o) == ConnectHitCall(a, o) /\ UNCHANGED multi
ConnectMiss(a, o) == ConnectMissCall(a, o) /\ UNCHANGED multi

\* connect(uri, options, ...) with arguments a and user options o
Connect(a, o) == ConnectInvalid(a) \/ ConnectHit(a, o) \/ ConnectMiss(a, o)

\* ------------------------------------------------------------ connectWithRetry
\* the promise is rejected and connect's catch block removes the name
Reject(e, inf, err) ==
  /\ info' = [info EXCEPT ![e] = inf]
  /\ task' = [task EXCEPT ![e].pc = "rejected", ![e].failure = err, ![e].error = NoError]
  /\ cache' = IF task[e].gen = gen THEN MapDelete(cache, inf.connectionName) ELSE cache
  /\ calls' = SettleCalls(e, "err", NoHandle, err)
  /\ UNCHANGED conn

\* a pause that grows with the attempt number
RetryPauseLinear(e) == task[e].retryDelay * task[e].attempt
\* `await new Promise(resolve => setTimeout(resolve, retryDelay))`
RetryPause(e) == task[e].retryDelay

\* the rest of the catch block, after the onError callback
AfterOnError(e, inf, err) ==
  IF task[e].attempt = task[e].maxRetries
  THEN Reject(e, [inf EXCEPT !.state = "error"], ExhaustedError(task[e].maxRetries, err))
  ELSE /\ info' = [info EXCEPT ![e] = inf]
       /\ task' = [task EXCEPT ![e].pc = "delay", ![e].error = NoError,
                               ![e].pauses = Append(@, RetryPause(e))]
       /\ UNCHANGED <<cache, calls, conn>>

\* the catch block of one attempt, up to the onError callback
AttemptFailed(e, err) ==
  LET inf == [info[e] EXCEPT !.lastError = err, !.retryCount = task[e].attempt]
  IN IF task[e].cb
     THEN /\ info' = [info EXCEPT ![e] = inf]
          /\ task' = [task EXCEPT ![e].pc = "onError", ![e].error = err]
          /\ UNCHANGED <<cache, calls, conn>>
     ELSE AfterOnError(e, inf, err)

\* the promise is fulfilled with h and connect resumes after
\* `await connectionPromise`: lines 402-411
Resolve(e, inf, h) ==
  /\ info' = [info EXCEPT ![e] = [inf EXCEPT !.state = "connected", !.connectedAt = TRUE]]
  /\ conn' = [conn EXCEPT ![e] = h]
  /\ task' = [task EXCEPT ![e].pc = "resolved", ![e].result = h]
  /\ calls' = SettleCalls(e, "ok", h, NoError)
  /\ UNCHANGED cache

\* a count that includes the attempt that succeeded
RetriesIncluding(e) == task[e].attempt
\* `connectionInfo.retryCount = attempt - 1`
RetriesBefore(e) == task[e].attempt - 1

\* the attempt's handle became ready: lines 446-467
MarkConnected(e) ==
  LET inf == [info[e] EXCEPT !.state = "connected", !.connectedAt = TRUE,
                             !.retryCount = RetriesBefore(e)]
  IN IF task[e].cb
     THEN /\ info' = [info EXCEPT ![e] = inf]
          /\ task' = [task EXCEPT ![e].pc = "onConnect"]
          /\ UNCHANGED <<cache, calls, conn>>
     ELSE Resolve(e, inf, Handle(e, task[e].attempt))

\* what an establishment step or a driver event leaves alone
Rest == <<gen, nextId, closeTask, bulk, refused, shutdownHandlersRegistered, handlerRegs, Idle>>

\* createConnection rejects
DialFails(e) ==
  /\ task[e].pc = "dial"
  /\ AttemptFailed(e, DriverError("connect ECONNREFUSED", task[e].attempt))
  /\ UNCHANGED <<handle, nOps, fired, threw, Rest>>

\* createConnection returns a handle that is already ready
DialReady(e) ==
  /\ task[e].pc = "dial"
  /\ handle' = [handle EXCEPT ![e] =
       [NoConn EXCEPT !.id = Handle(e, task[e].attempt), !.readyState = 1, !.listening = TRUE]]
  /\ MarkConnected(e)
  /\ UNCHANGED <<nOps, fired, threw, Rest>>

\* createConnection returns a handle that is still connecting
DialPending(e) ==
  /\ task[e].pc = "dial"
  /\ handle' = [handle EXCEPT ![e] =
       [NoConn EXCEPT !.id = Handle(e, task[e].attempt), !.readyState = 2]]
  /\ task' = [task EXCEPT ![e].pc = "wait"]
  /\ UNCHANGED <<cache, info, conn, calls, nOps, fired, threw, Rest>>

\* waitForConnectionReady: 'connected' event, or the poll sees readyState 1
WaitConnected(e) ==
  /\ task[e].pc = "wait"
  /\ handle' = [handle EXCEPT ![e].readyState = 1, ![e].listening = TRUE]
  /\ MarkConnected(e)
  /\ UNCHANGED <<nOps, fired, threw, Rest>>

\* waitForConnectionReady: 'error' event
WaitError(e) ==
  /\ task[e].pc = "wait"
  /\ handle' = [handle EXCEPT ![e].readyState = 0]
  /\ AttemptFailed(e, DriverError("server selection error", task[e].attempt))
  /\ UNCHANGED <<nOps, fired, threw, Rest>>

\* a poll that has no deadline and only reschedules itself
WaitWithoutDeadline(e) ==
  /\ task[e].pc = "wait"
  /\ UNCHANGED vars
\* waitForConnectionReady: the poll sees the deadline passed
WaitTimeout(e) ==
  /\ task[e].pc = "wait"
  /\ AttemptFailed(e, DriverError("Connection timeout after {timeoutMs}ms", task[e].attempt))
  /\ UNCHANGED <<handle, nOps, fired, threw, Rest>>

\* the awaited onError callback returns
OnErrorReturns(e) ==
  /\ task[e].pc = "onError"
  /\ AfterOnError(e, info[e], task[e].error)
  /\ UNCHANGED <<handle, nOps, fired, threw, Rest>>

\* the awaited onConnect callback returns
OnConnectReturns(e) ==
  /\ task[e].pc = "onConnect"
  /\ Resolve(e, info[e], handle[e].id)
  /\ UNCHANGED <<handle, nOps, fired, threw, Rest>>

\* the awaited onConnect callback throws: the catch of lines 464-466 logs it
OnConnectThrows(e) ==
  /\ task[e].pc = "onConnect"
  /\ threw' = Thrown("onConnect", e)
  /\ IF CallbackErrorRethrown
     THEN AttemptFailed(e, CallbackError)
     ELSE Resolve(e, info[e], handle[e].id)
  /\ UNCHANGED <<handle, nOps, fired, Rest>>

\* the awaited onError callback throws: the catch of lines 483-485 logs it
OnErrorThrows(e) ==
  /\ task[e].pc = "onError"
  /\ threw' = Thrown("onError", e)
  /\ IF CallbackErrorRethrown
     THEN Reject(e, info[e], CallbackError)
     ELSE AfterOnError(e, info[e], task[e].error)
  /\ UNCHANGED <<handle, nOps, fired, Rest>>

\* the retry pause elapses and the next attempt dials
DelayElapsed(e) ==
  /\ task[e].pc = "delay"
  /\ task' = [task EXCEPT ![e].pc = "dial", ![e].attempt = @ + 1, ![e].dials = @ + 1]
  /\ UNCHANGED <<cache, info, conn, calls, handle, nOps, fired, threw, Rest>>

\* ------------------------------------------------------------ driver events
\* the listeners of setupConnectionEvents run on a live handle
Listening(e) == handle[e].listening /\ ~handle[e].closed

\* a listener that updates the record and calls nothing
InvokeNothing(e, cb, throws) == ~throws /\ UNCHANGED <<fired, threw>>
\* a listener awaits the user's callback inside try/catch: lines 515-521,
\* 527-533, 540-546; without a callback nothing is invoked
InvokeCallback(e, cb, throws) ==
  IF task[e].cb
  THEN /\ fired' = [cb |-> cb, rid |-> e]
       /\ threw' = IF throws THEN Thrown(cb, e) ELSE threw
  ELSE /\ ~throws
       /\ UNCHANGED <<fired, threw>>

\* connection.on('error')
ErrorListener(e, throws) ==
  /\ Listening(e)
  /\ nOps < MaxOps
  /\ nOps' = nOps + 1
  /\ info' = [info EXCEPT ![e].state = "error",
                          ![e].lastError = DriverError("connection error", 0)]
  /\ InvokeCallback(e, "onError", throws)
  /\ UNCHANGED <<cache, conn, task, handle, calls, Rest>>

\* connection.on('disconnected')
DisconnectedListener(e, throws) ==
  /\ Listening(e)
  /\ nOps < MaxOps
  /\ nOps' = nOps + 1
  /\ handle[e].readyState = 1
  /\ handle' = [handle EXCEPT ![e].readyState = 0]
  /\ info' = [info EXCEPT ![e].state = "disconnected"]
  /\ InvokeCallback(e, "onDisconnect", throws)
  /\ UNCHANGED <<cache, conn, task, calls, Rest>>

\* connection.on('reconnected')
ReconnectedListener(e, throws) ==
  /\ Listening(e)
  /\ nOps < MaxOps
  /\ nOps' = nOps + 1
  /\ handle[e].readyState = 0
  /\ handle' = [handle EXCEPT ![e].readyState = 1]
  /\ info' = [info EXCEPT ![e].state = "connected", ![e].connectedAt = TRUE]
  /\ InvokeCallback(e, "onConnect", throws)
  /\ UNCHANGED <<cache, conn, task, calls, Rest>>

\* the driver emits an event and the callback, if any, returns
ErrorEvent(e) == ErrorListener(e, FALSE)
DisconnectedEvent(e) == DisconnectedListener(e, FALSE)
ReconnectedEvent(e) == ReconnectedListener(e, FALSE)
\* the driver emits an event and the callback throws
ErrorEventThrows(e) == ErrorListener(e, TRUE)
DisconnectedEventThrows(e) == DisconnectedListener(e, TRUE)
ReconnectedEventThrows(e) == ReconnectedListener(e, TRUE)

\* ------------------------------------------------------------ close
\* the synchronous part of closeConnection for the names ns, up to
\* `await cachedConnection.connection?.close()`; a record without a handle
\* is removed as soon as the await of undefined resumes
BeginClose(ns, grp) ==
  LET rid(n) == MapGet(cache, n)
      open == {n \in ns : conn[rid(n)] # NoHandle}
  IN /\ info' = [e \in Ids |->
                   IF \E n \in ns : rid(n) = e
                   THEN [info[e] EXCEPT !.state = "disconnecting"]
                   ELSE info[e]]
     /\ handle' = [e \in Ids |->
                     IF \E n \in open : conn[rid(n)].est = e
                     THEN [handle[e] EXCEPT !.closeRequested = TRUE]
                     ELSE handle[e]]
     /\ closeTask' = [n \in Names |->
                        IF n \in open
                        THEN [pc |-> "closing", rid |-> rid(n), gen |-> gen, grp |-> grp]
                        ELSE closeTask[n]]

\* closeConnection(name) on a cached name
CloseConnection(n) ==
  /\ MapHas(cache, n)
  /\ closeTask[n].pc = "idle"
  /\ nOps < MaxOps
  /\ nOps' = nOps + 1
  /\ BeginClose({n}, "single")
  /\ cache' = IF conn[MapGet(cache, n)] = NoHandle THEN MapDelete(cache, n) ELSE cache
  /\ UNCHANGED <<gen, conn, task, calls, nextId, bulk, refused, Aux,
                 shutdownHandlersRegistered, handlerRegs>>

\* handle.close() resolves: closeConnection removes the name and returns
CloseResolves(n) ==
  /\ closeTask[n].pc = "closing"
  /\ handle' = [handle EXCEPT ![conn[closeTask[n].rid].est].closed = TRUE,
                              ![conn[closeTask[n].rid].est].readyState = 0]
  /\ cache' = IF closeTask[n].gen = gen THEN MapDelete(cache, n) ELSE cache
  /\ closeTask' = [closeTask EXCEPT ![n] = NoClose]
  /\ UNCHANGED <<gen, info, conn, task, calls, nextId, bulk, refused, Aux, nOps,
                 shutdownHandlersRegistered, handlerRegs>>

\* handle.close() rejects: the catch block logs and closeConnection returns
CloseRejects(n) ==
  /\ closeTask[n].pc = "closing"
  /\ closeTask' = [closeTask EXCEPT ![n] = NoClose]
  /\ UNCHANGED <<cache, gen, info, conn, task, handle, calls, nextId, bulk, refused, Aux, nOps,
                 shutdownHandlersRegistered, handlerRegs>>

\* closeAllConnections() / cleanup(): closeConnection on every cached name
\* at once, then `await Promise.all`
CloseAllStart(kind) ==
  LET ns == MapKeys(cache)
      open == {n \in ns : conn[MapGet(cache, n)] # NoHandle}
  IN /\ bulk.pc = "idle"
     /\ \A n \in Names : closeTask[n].pc = "idle"
     /\ nOps < MaxOps
     /\ nOps' = nOps + 1
     /\ BeginClose(ns, "bulk")
     /\ IF open = {}
        THEN \* nothing to wait for: the call runs to its end
             /\ cache' = {}
             /\ gen' = IF kind = "cleanup" THEN gen + 1 ELSE gen
             /\ UNCHANGED bulk
        ELSE /\ cache' = {x \in cache : x.name \in open}
             /\ bulk' = [pc |-> "await", kind |-> kind, gen |-> gen]
             /\ UNCHANGED gen
     /\ UNCHANGED <<conn, task, calls, nextId, refused, Aux,
                    shutdownHandlersRegistered, handlerRegs>>

\* a cleanup() that returns after the closes without clearing anything
CloseAllReturnsOnly ==
  /\ bulk.pc = "await"
  /\ \A n \in Names : ~(closeTask[n].pc = "closing" /\ closeTask[n].grp = "bulk")
  /\ bulk' = NoBulk
  /\ UNCHANGED <<cache, gen, info, conn, task, handle, calls, nextId, closeTask, refused, Aux,
                 nOps, shutdownHandlersRegistered, handlerRegs>>
\* every closeConnection of the batch has returned; cleanup() then clears
\* the cache it captured and deletes the global
CloseAllReturns ==
  /\ bulk.pc = "await"
  /\ \A n \in Names : ~(closeTask[n].pc = "closing" /\ closeTask[n].grp = "bulk")
  /\ bulk' = NoBulk
  /\ IF bulk.kind = "cleanup"
     THEN /\ cache' = {}
          /\ gen' = gen + 1
     ELSE UNCHANGED <<cache, gen>>
  /\ UNCHANGED <<info, conn, task, handle, calls, nextId, closeTask, refused, Aux, nOps,
                 shutdownHandlersRegistered, handlerRegs>>

\* resetConnectorState()
ResetConnectorState ==
  /\ nOps < MaxOps
  /\ nOps' = nOps + 1
  /\ cache' = {}
  /\ shutdownHandlersRegistered' = FALSE
  /\ UNCHANGED <<gen, info, conn, task, handle, calls, nextId, closeTask, bulk,
                 refused, Aux, handlerRegs>>

\* ------------------------------------------------------------ shutdown
\* an exit that does not wait for the closes
ExitAtOnce == TRUE
\* `await Promise.all(closePromises)` of the handler's closeAllConnections
\* has resumed: every closeConnection it started has returned
ClosesSettled ==
  \A n \in Names : ~(closeTask[n].pc = "closing" /\ closeTask[n].grp = "bulk")

\* SIGINT, SIGTERM or SIGQUIT arrives and a registered handler runs
\* closeAllConnections up to its await; with no handle to close the handler
\* goes on to process.exit(0)
Signal ==
  LET ns == MapKeys(cache)
      open == {n \in ns : conn[MapGet(cache, n)] # NoHandle}
  IN /\ proc.pc = "running"
     /\ handlerRegs > 0
     /\ bulk.pc = "idle"
     /\ \A n \in Names : closeTask[n].pc = "idle"
     /\ BeginClose(ns, "bulk")
     /\ cache' = {x \in cache : x.name \in open}
     /\ IF open = {}
        THEN /\ proc' = [pc |-> "exited", closePromises |-> {}]
             /\ UNCHANGED bulk
        ELSE /\ proc' = [pc |-> "shutdown", closePromises |-> {MapGet(cache, n) : n \in open}]
             /\ bulk' = [pc |-> "await", kind |-> "shutdown", gen |-> gen]
     /\ UNCHANGED <<gen, conn, task, calls, nextId, refused, nOps,
                    shutdownHandlersRegistered, handlerRegs, fired, threw, multi, health, monitor, probe>>

\* the handler resumes after `await this.closeAllConnections()` and calls
\* process.exit(0)
ShutdownExits ==
  /\ proc.pc = "shutdown"
  /\ ClosesSettled
  /\ proc' = [proc EXCEPT !.pc = "exited"]
  /\ bulk' = NoBulk
  /\ UNCHANGED <<cache, gen, info, conn, task, handle, calls, nextId, closeTask, refused, nOps,
                 shutdownHandlersRegistered, handlerRegs, fired, threw, multi, health, monitor, probe>>

\* ------------------------------------------------------------ connectMultiDb
\* one entry of the connections array
Entry(name, args, maxRetries) == [name |-> name, args |-> args, maxRetries |-> maxRetries]
\* `names.length !== uniqueNames.size`
NamesUnique(b) == \A i, j \in 1..Len(b) : b[i].name = b[j].name => i = j
\* the entries whose uri fails validateURI, in array order
BadTargets(b) == {i \in 1..Len(b) : ~UriValidation[b[i].args].isValid}
Least(S) == CHOOSE i \in S : \A j \in S : i <= j
\* a batch start that checks nothing
BatchUnchecked(b) == NoError
\* the three checks before the first connect: lines 726-743
BatchError(b) ==
  IF Len(b) = 0
  THEN ValidationError("At least one connection configuration is required", <<>>)
  ELSE IF ~NamesUnique(b)
  THEN ValidationError("Connection names must be unique", <<>>)
  ELSE IF BadTargets(b) # {}
  THEN ValidationError("Security validation failed for {name}",
                       <<b[Least(BadTargets(b))].name>>
                         \o UriValidation[b[Least(BadTargets(b))].args].errors)
  ELSE NoError

\* the records the connect calls of batch b would create
Misses(b) == {i \in 1..Len(b) : ~MapHas(cache, b[i].name)}

\* connectMultiDb(b) up to the first connect call of `connections.map`;
\* multi.before keeps the records that were cached when it was called
MultiStart(b) ==
  /\ multi.pc \in {"idle", "resolved", "rejected"}
  /\ nextId + Cardinality(Misses(b)) - 1 <= MaxEst
  /\ multi' = IF BatchError(b) # NoError
               THEN [NoMulti EXCEPT !.pc = "rejected", !.batch = b, !.error = BatchError(b)]
               ELSE IF Len(b) = 0
               THEN [NoMulti EXCEPT !.pc = "await"]
               ELSE [NoMulti EXCEPT !.pc = "mapping", !.batch = b, !.next = 1,
                                    !.before = cache]
  /\ UNCHANGED <<cache, gen, info, conn, task, handle, calls, nextId, closeTask, bulk,
                 refused, nOps, shutdownHandlersRegistered, handlerRegs,
                 fired, threw, proc, health, monitor, probe>>

\* the connect call of the next entry, in the same turn of the event loop:
\* `this.connect(conn.uri, { ...conn.options, connectionName: conn.name })`
MultiConnect ==
  LET ent == multi.batch[multi.next]
      o == UserOptions(ent.name, ent.maxRetries, 0, FALSE)
      ok == ValidationPassed(UriValidation[ent.args], OptionsValidation[ent.args])
      joined == IF ~ok THEN 0
                ELSE IF CacheHit(ent.name) THEN MapGet(cache, ent.name) ELSE nextId
  IN /\ multi.pc = "mapping"
     /\ ConnectInvalidCall(ent.args) \/ ConnectHitCall(ent.args, o) \/ ConnectMissCall(ent.args, o)
     /\ multi' = [multi EXCEPT !.next = @ + 1, !.rids = Append(@, joined),
                               !.pc = IF multi.next = Len(multi.batch)
                                      THEN "await" ELSE "mapping"]

\* the entries whose connect call has thrown or whose promise is rejected
FailedEntries ==
  {i \in 1..Len(multi.rids) : multi.rids[i] = 0 \/ task[multi.rids[i]].pc = "rejected"}

\* `await Promise.all(connectionPromises)` resumes with the map of handles
MultiResolves ==
  /\ multi.pc = "await"
  /\ \A i \in 1..Len(multi.rids) : multi.rids[i] # 0 /\ task[multi.rids[i]].pc = "resolved"
  /\ multi' = [multi EXCEPT !.pc = "resolved"]
  /\ UNCHANGED <<cache, gen, info, conn, task, handle, calls, nextId, closeTask, bulk,
                 refused, nOps, shutdownHandlersRegistered, handlerRegs,
                 fired, threw, proc, health, monitor, probe>>

\* Promise.all rejects with the error of the first entry to fail, wrapped
\* as `Failed to connect to ${conn.name}: ...`; the catch block is entered
MultiFails ==
  /\ multi.pc = "await"
  /\ FailedEntries # {}
  /\ multi' = [multi EXCEPT !.pc = "failed", !.gen = gen,
                            !.failed = multi.batch[Least(FailedEntries)].name]
  /\ UNCHANGED <<cache, gen, info, conn, task, handle, calls, nextId, closeTask, bulk,
                 refused, nOps, shutdownHandlersRegistered, handlerRegs,
                 fired, threw, proc, health, monitor, probe>>

\* the catch block calls cleanup(): line 764
MultiCleanup ==
  /\ multi.pc = "failed"
  /\ multi.gen = gen
  /\ CloseAllStart("cleanup")

\* cleanup() has returned (it installed a new cache) and the catch block
\* rethrows the wrapped error
MultiRejects ==
  /\ multi.pc = "failed"
  /\ multi.gen # gen
  /\ bulk.pc = "idle"
  /\ multi' = [multi EXCEPT !.pc = "rejected",
                            !.error = ValidationError("Failed to connect to {name}",
                                                      <<multi.failed>>)]
  /\ UNCHANGED <<cache, gen, info, conn, task, handle, calls, nextId, closeTask, bulk,
                 refused, nOps, shutdownHandlersRegistered, handlerRegs,
                 fired, threw, proc, health, monitor, probe>>

\* a step of connectMultiDb that runs before the event loop takes
\* anything else: the rest of the synchronous map, and the continuations
\* of settled promises
Urgent ==
  \/ multi.pc = "mapping"
  \/ multi.pc = "await" /\ FailedEntries # {}
  \/ multi.pc = "failed" /\ bulk.pc = "idle"

\* ------------------------------------------------------------ healthCheck
\* the HealthCheck object returned; probed tells whether ping() was called
HealthResult(isHealthy, n, state, error, probed) ==
  [isHealthy |-> isHealthy, connectionName |-> n, state |-> state, error |-> error,
   probed |-> probed]
\* the result of lines 672-677
NotFound(n) ==
  HealthResult(FALSE, n, "disconnected",
               <<"Connection '{name}' not found. Available connections: ", MapKeys(cache)>>, FALSE)
\* the result of lines 682-687
NotReady(n, rs, state) ==
  HealthResult(FALSE, n, state, <<"Connection not ready. ReadyState: ", rs, state>>, FALSE)
\* the message of the exception a failing ping() throws
PingError == <<"ping failed">>
NoErrorText == <<>>

\* a probe whatever the readiness
ProbeAlways(rs) == TRUE
\* `if (connection.readyState !== 1) return ...`
ProbeAllowed(rs) == rs = 1

\* healthCheck(n) up to its first return or to `await ...ping()`
HealthCheck(n) ==
  LET connection == getConnection(n)
      i == getConnectionInfo(n)
      rs == ReadyStateOf(connection)
  IN /\ health.pc # "ping"
     /\ health' =
          IF connection = NoHandle \/ i = NoInfo
          THEN [pc |-> "done", name |-> n, rid |-> 0, result |-> NotFound(n)]
          ELSE IF ~ProbeAllowed(rs)
          THEN [pc |-> "done", name |-> n, rid |-> 0, result |-> NotReady(n, rs, i.state)]
          ELSE [pc |-> "ping", name |-> n, rid |-> MapGet(cache, n), result |-> <<>>]
     /\ UNCHANGED <<cache, gen, info, conn, task, handle, calls, nextId, closeTask, bulk,
                    refused, nOps, shutdownHandlersRegistered, handlerRegs,
                    fired, threw, multi, proc, monitor, probe>>

\* ping() resolves: lines 694-702
PingResolves ==
  /\ health.pc = "ping"
  /\ health' = [health EXCEPT !.pc = "done",
                 !.result = HealthResult(TRUE, health.name, info[health.rid].state,
                                         NoErrorText, TRUE)]
  /\ UNCHANGED <<cache, gen, info, conn, task, handle, calls, nextId, closeTask, bulk,
                 refused, nOps, shutdownHandlersRegistered, handlerRegs,
                 fired, threw, multi, proc, monitor, probe>>

\* ping() rejects: the catch block of lines 703-710
PingRejects ==
  /\ health.pc = "ping"
  /\ health' = [health EXCEPT !.pc = "done",
                 !.result = HealthResult(FALSE, health.name, info[health.rid].state,
                                         PingError, TRUE)]
  /\ UNCHANGED <<cache, gen, info, conn, task, handle, calls, nextId, closeTask, bulk,
                 refused, nOps, shutdownHandlersRegistered, handlerRegs,
                 fired, threw, multi, proc, monitor, probe>>

\* ------------------------------------------------------------ createSecureOptions
\* a key of mongoose.ConnectOptions is absent ("unset"), present with the
\* value undefined, or a boolean
Flag == {"unset", "undefined", "true", "false"}
\* `userOptions.key`: an absent key reads as undefined
ReadFlag(v) == IF v = "unset" THEN "undefined" ELSE v
\* a spread in which the base value wins
SpreadKeepsBase(base, user) == base
\* `{ ...baseOptions, ...userOptions }` for one key: an own key of
\* userOptions, whatever its value, replaces the base value
Spread(base, user) == IF user = "unset" THEN base ELSE user
\* the same for a numeric key, which the model writes 0 when it is absent
SpreadNumber(base, user) == IF user = 0 THEN base ELSE user
\* maxPoolSize: 10 of baseOptions
DEFAULT_POOL_SIZE == 10
\* SECURITY_CONFIG.DEFAULT_TIMEOUT
DEFAULT_TIMEOUT == 30000
\* heartbeatFrequencyMS: 30000 of baseOptions
HEARTBEAT_FREQUENCY == 30000

createSecureOptions(userOptions, env) ==
  LET dev == env = "development"
      baseOptions ==
        [ssl |-> IF dev THEN (IF userOptions.ssl # "false" THEN "true" ELSE "false") ELSE "true",
         tls |-> IF dev THEN (IF userOptions.tls # "false" THEN "true" ELSE "false") ELSE "true",
         tlsAllowInvalidCertificates |->
           IF dev THEN ReadFlag(userOptions.tlsAllowInvalidCertificates) ELSE "false",
         tlsAllowInvalidHostnames |->
           IF dev THEN ReadFlag(userOptions.tlsAllowInvalidHostnames) ELSE "false",
         maxPoolSize |-> DEFAULT_POOL_SIZE,
         bufferMaxEntries |-> 0,
         serverSelectionTimeoutMS |-> DEFAULT_TIMEOUT,
         socketTimeoutMS |-> DEFAULT_TIMEOUT,
         connectTimeoutMS |-> DEFAULT_TIMEOUT,
         heartbeatFrequencyMS |-> HEARTBEAT_FREQUENCY,
         retryWrites |-> "true",
         retryReads |-> "true"]
  IN [ssl |-> Spread(baseOptions.ssl, userOptions.ssl),
      tls |-> Spread(baseOptions.tls, userOptions.tls),
      tlsAllowInvalidCertificates |->
        Spread(baseOptions.tlsAllowInvalidCertificates, userOptions.tlsAllowInvalidCertificates),
      tlsAllowInvalidHostnames |->
        Spread(baseOptions.tlsAllowInvalidHostnames, userOptions.tlsAllowInvalidHostnames),
      maxPoolSize |-> SpreadNumber(baseOptions.maxPoolSize, userOptions.maxPoolSize),
      bufferMaxEntries |-> userOptions.bufferMaxEntries,
      serverSelectionTimeoutMS |->
        SpreadNumber(baseOptions.serverSelectionTimeoutMS, userOptions.serverSelectionTimeoutMS),
      socketTimeoutMS |-> SpreadNumber(baseOptions.socketTimeoutMS, userOptions.socketTimeoutMS),
      connectTimeoutMS |-> SpreadNumber(baseOptions.connectTimeoutMS, userOptions.connectTimeoutMS),
      heartbeatFrequencyMS |->
        SpreadNumber(baseOptions.heartbeatFrequencyMS, userOptions.heartbeatFrequencyMS),
      retryWrites |-> Spread(baseOptions.retryWrites, userOptions.retryWrites),
      retryReads |-> Spread(baseOptions.retryReads, userOptions.retryReads)]

\* every combination of the four TLS keys a caller can pass
DriverOptions ==
  {[NoDriverOptions EXCEPT !.ssl = a, !.tls = b, !.tlsAllowInvalidCertificates = c,
                           !.tlsAllowInvalidHostnames = d] : a, b, c, d \in Flag}

\* connect with options.options = probe.options: validateOptions rejects them
OptionsRefused ==
  /\ probe.pc = "given"
  /\ ~validateOptions(probe.options, probe.env).isValid
  /\ probe' = [probe EXCEPT !.pc = "refused"]
  /\ UNCHANGED <<cache, gen, info, conn, task, handle, calls, nextId, closeTask, bulk,
                 refused, nOps, shutdownHandlersRegistered, handlerRegs,
                 fired, threw, multi, proc, health, monitor>>

\* connect with options.options = probe.options: they pass validateOptions
\* and createConnection is called with createSecureOptions(options.options)
OptionsDialed ==
  /\ probe.pc = "given"
  /\ validateOptions(probe.options, probe.env).isValid
  /\ probe' = [probe EXCEPT !.pc = "dial",
                            !.effective = createSecureOptions(probe.options, probe.env)]
  /\ UNCHANGED <<cache, gen, info, conn, task, handle, calls, nextId, closeTask, bulk,
                 refused, nOps, shutdownHandlersRegistered, handlerRegs,
                 fired, threw, multi, proc, health, monitor>>

\* ------------------------------------------------------------ getPoolStats
\* the application calls getPoolStats() and keeps what it returned
GetPoolStats ==
  /\ probe' = [pc |-> "stats", result |-> getPoolStats]
  /\ UNCHANGED <<cache, gen, info, conn, task, handle, calls, nextId, closeTask, bulk,
                 refused, nOps, shutdownHandlersRegistered, handlerRegs,
                 fired, threw, multi, proc, health, monitor>>

\* ------------------------------------------------------------ getConnectionWithTimeout
\* getConnectionWithTimeout(n, timeoutMs): the executor arms the timer,
\* reads the handle once, clears the timer and settles the promise in the
\* same turn; timerFired tells whether the timer's callback ran
GetConnectionWithTimeout(n, timeoutMs) ==
  LET connection == getConnection(n)
  IN /\ probe' =
          IF connection # NoHandle /\ ReadyStateOf(connection) = 1
          THEN [pc |-> "timed", name |-> n, timeoutMs |-> timeoutMs, outcome |-> "resolved",
                handle |-> connection, error |-> "", timerFired |-> FALSE]
          ELSE [pc |-> "timed", name |-> n, timeoutMs |-> timeoutMs, outcome |-> "rejected",
                handle |-> NoHandle, error |-> "No active connection found for {name}",
                timerFired |-> FALSE]
     /\ UNCHANGED <<cache, gen, info, conn, task, handle, calls, nextId, closeTask, bulk,
                    refused, nOps, shutdownHandlersRegistered, handlerRegs,
                    fired, threw, multi, proc, health, monitor>>

\* ------------------------------------------------------------ startConnectionMonitoring
\* `Object.prototype.hasOwnProperty.call(reported, name)`
HasOwn(reported, name) == reported[name] # "absent"
\* `reported[name] = isHealthy` on the plain object `reported`: the key
\* __proto__ is the accessor of Object.prototype, whose setter ignores a
\* boolean, so no own key is created
SetOwn(reported, name, v) ==
  IF name = "__proto__" THEN reported ELSE [reported EXCEPT ![name] = v]
\* `info.state === 'connected'`, as the value kept in `reported`
IsHealthy(name) == IF getConnectionInfo(name).state = "connected" THEN "true" ELSE "false"
\* the condition under which check() invokes onHealthChange: line 1033
MustReport(reported, name) ==
  ~HasOwn(reported, name) \/ reported[name] # IsHealthy(name)

\* one run of check(): for every cached name, report and remember
Check ==
  /\ monitor' =
       [monitor EXCEPT
          !.on = TRUE,
          !.reported = [n \in Names |->
                          IF MapHas(cache, n) /\ MustReport(monitor.reported, n)
                          THEN SetOwn(monitor.reported, n, IsHealthy(n))[n]
                          ELSE monitor.reported[n]],
          !.log = [n \in Names |->
                     IF MapHas(cache, n) /\ MustReport(monitor.reported, n)
                     THEN Append(monitor.log[n], IsHealthy(n))
                     ELSE monitor.log[n]]]
  /\ UNCHANGED <<cache, gen, info, conn, task, handle, calls, nextId, closeTask, bulk,
                 refused, shutdownHandlersRegistered, handlerRegs,
                 fired, threw, multi, proc, health, probe>>

\* startConnectionMonitoring(intervalMs, onHealthChange): the initial check()
StartConnectionMonitoring ==
  /\ ~monitor.on
  /\ Check
  /\ UNCHANGED nOps

\* the interval elapses and check() runs again
MonitorTick ==
  /\ monitor.on
  /\ nOps < MaxOps
  /\ nOps' = nOps + 1
  /\ Check

\* ------------------------------------------------------------ validator calls
\* validateURI(uri, allowedHosts) is called on the composed target
ValidateURICall ==
  /\ probe.pc = "target"
  /\ probe' = [probe EXCEPT !.pc = "validated",
                            !.result = validateURI(Compose(probe.target), probe.allowedHosts,
                                                   probe.env)]
  /\ UNCHANGED <<cache, gen, info, conn, task, handle, calls, nextId, closeTask, bulk,
                 refused, nOps, shutdownHandlersRegistered, handlerRegs,
                 fired, threw, multi, proc, health, monitor>>

\* validateOptions(options) is called
ValidateOptionsCall ==
  /\ probe.pc = "options"
  /\ probe' = [probe EXCEPT !.pc = "checked",
                            !.result = validateOptions(probe.options, probe.env)]
  /\ UNCHANGED <<cache, gen, info, conn, task, handle, calls, nextId, closeTask, bulk,
                 refused, nOps, shutdownHandlersRegistered, handlerRegs,
                 fired, threw, multi, proc, health, monitor>>

\* the error connect throws for a failed validateURI, none when it passed
Refusal(r) ==
  IF r.isValid THEN NoError ELSE ValidationError("Security validation failed", r.errors)
\* validateURI, and connect up to its validation, on a target and on the
\* same target with other credentials
ValidatePair ==
  /\ probe.pc = "pair"
  /\ LET a == validateURI(Compose(probe.target), probe.allowedHosts, probe.env)
         b == validateURI(Compose([probe.target EXCEPT !.creds = probe.creds]),
                          probe.allowedHosts, probe.env)
     IN probe' = [probe EXCEPT !.pc = "compared", !.a = a, !.b = b,
                               !.thrownA = Refusal(a), !.thrownB = Refusal(b)]
  /\ UNCHANGED <<cache, gen, info, conn, task, handle, calls, nextId, closeTask, bulk,
                 refused, nOps, shutdownHandlersRegistered, handlerRegs,
                 fired, threw, multi, proc, health, monitor>>

\* ------------------------------------------------------------ specification
\* one step of an establishment: the driver or a callback lets it continue
EstablishmentStep(e) ==
  \/ DialFails(e) \/ DialReady(e) \/ DialPending(e)
  \/ WaitConnected(e) \/ WaitError(e) \/ WaitTimeout(e)
  \/ OnErrorReturns(e) \/ OnConnectReturns(e) \/ DelayElapsed(e)

\* the whole lifecycle, for connect calls whose arguments pass validation
Next ==
  \/ \E a \in ValidArgs, o \in LifecycleOptions : ConnectHit(a, o) \/ ConnectMiss(a, o)
  \/ \E e \in Ids : EstablishmentStep(e)
  \/ \E e \in Ids : ErrorEvent(e) \/ DisconnectedEvent(e) \/ ReconnectedEvent(e)
  \/ \E n \in Names : CloseConnection(n) \/ CloseResolves(n) \/ CloseRejects(n)
  \/ CloseAllStart("closeAll") \/ CloseAllStart("cleanup") \/ CloseAllReturns
  \/ ResetConnectorState

Spec == Init /\ [][Next]_vars

\* connect calls with valid arguments and the retry loop in depth
NextConnect ==
  \/ \E a \in ValidArgs, o \in RetryLoopOptions : ConnectHit(a, o) \/ ConnectMiss(a, o)
  \/ \E e \in Ids : EstablishmentStep(e)

SpecConnect == Init /\ [][NextConnect]_vars

\* the steps of an establishment that the program and its givens guarantee:
\* createConnection returns, the poll of waitForConnectionReady runs into
\* its deadline, an awaited callback returns, the retry timer fires. The
\* driver's 'connected' and 'error' events are not among them.
Guaranteed(e) ==
  \/ DialFails(e) \/ DialReady(e) \/ DialPending(e)
  \/ WaitTimeout(e)
  \/ OnErrorReturns(e) \/ OnConnectReturns(e) \/ DelayElapsed(e)

\* connect calls under a scheduler that runs every guaranteed step
SpecConnectFair ==
  Init /\ [][NextConnect]_vars /\ \A e \in Ids : WF_vars(Guaranteed(e))

\* connect calls with every sample argument, valid or not
NextValidation ==
  \/ \E a \in AllArgs, o \in LifecycleOptions : Connect(a, o)
  \/ \E e \in Ids : EstablishmentStep(e)

SpecValidation == Init /\ [][NextValidation]_vars

\* connect calls with and without callbacks
CallbackOptions == LifecycleOptions \cup {UserOptions("", 2, 0, TRUE)}

\* connect, the retry loop and the driver's events, with callbacks that
\* return and callbacks that throw
NextCallbacks ==
  \/ \E a \in ValidArgs, o \in CallbackOptions : ConnectHit(a, o) \/ ConnectMiss(a, o)
  \/ \E e \in Ids : EstablishmentStep(e)
  \/ \E e \in Ids : OnConnectThrows(e) \/ OnErrorThrows(e)
  \/ \E e \in Ids : ErrorEvent(e) \/ DisconnectedEvent(e) \/ ReconnectedEvent(e)
  \/ \E e \in Ids : ErrorEventThrows(e) \/ DisconnectedEventThrows(e) \/ ReconnectedEventThrows(e)

SpecCallbacks == Init /\ [][NextCallbacks]_vars

\* connect calls for the default name; healthCheck is called for every name
HealthOptions == {UserOptions("", 2, 0, TRUE)}

\* connect, the driver's events, closeConnection and healthCheck calls
NextHealth ==
  \/ \E a \in ValidArgs, o \in HealthOptions : ConnectHit(a, o) \/ ConnectMiss(a, o)
  \/ \E e \in Ids : EstablishmentStep(e)
  \/ \E e \in Ids : ErrorEvent(e) \/ DisconnectedEvent(e) \/ ReconnectedEvent(e)
  \/ \E n \in Names : CloseConnection(n) \/ CloseResolves(n) \/ CloseRejects(n)
  \/ \E n \in Names : HealthCheck(n)
  \/ PingResolves \/ PingRejects

SpecHealth == Init /\ [][NextHealth]_vars

\* connect calls for one name with either target, the driver's events and
\* closeConnection
NextReuse ==
  \/ \E a \in ValidArgs \cup {aOther}, o \in HealthOptions : ConnectHit(a, o) \/ ConnectMiss(a, o)
  \/ \E e \in Ids : EstablishmentStep(e)
  \/ \E e \in Ids : ErrorEvent(e) \/ DisconnectedEvent(e) \/ ReconnectedEvent(e)
  \/ \E n \in Names : CloseConnection(n) \/ CloseResolves(n) \/ CloseRejects(n)

SpecReuse == Init /\ [][NextReuse]_vars

\* connect, the driver's events and getConnectionWithTimeout calls with a
\* short timeout and with the default one
NextTimeout ==
  \/ \E a \in ValidArgs, o \in HealthOptions : ConnectHit(a, o) \/ ConnectMiss(a, o)
  \/ \E e \in Ids : EstablishmentStep(e)
  \/ \E e \in Ids : ErrorEvent(e) \/ DisconnectedEvent(e) \/ ReconnectedEvent(e)
  \/ \E n \in Names, t \in {100, 5000} : GetConnectionWithTimeout(n, t)

SpecTimeout == Init /\ [][NextTimeout]_vars

\* the effective options of one connect call, for every combination of the
\* caller's TLS keys in both environments
InitOptions ==
  /\ Start
  /\ probe \in {[NoProbe EXCEPT !.pc = "given", !.options = o, !.env = v] :
                  o \in DriverOptions, v \in {"production", "development"}}

NextOptions == OptionsRefused \/ OptionsDialed

\* options that set or omit the TLS keys, the pool size, one timeout, the
\* heartbeat and one retry key
TunedOptions ==
  {[NoDriverOptions EXCEPT !.ssl = a, !.tlsAllowInvalidCertificates = c, !.maxPoolSize = p,
                           !.socketTimeoutMS = t, !.heartbeatFrequencyMS = h,
                           !.retryWrites = w] :
     a, c \in Flag, p \in {0, 50}, t \in {0, 5000}, h \in {0, 10000}, w \in {"unset", "false"}}

InitDefaults ==
  /\ Start
  /\ probe \in {[NoProbe EXCEPT !.pc = "given", !.options = o, !.env = v] :
                  o \in TunedOptions, v \in Modes}

SpecDefaults == InitDefaults /\ [][NextOptions]_vars

SpecOptions == InitOptions /\ [][NextOptions]_vars

\* a process that connects, closes and receives a termination signal; an
\* exited process takes no step
NextShutdown ==
  /\ proc.pc # "exited"
  /\ \/ \E a \in ValidArgs, o \in LifecycleOptions : ConnectHit(a, o) \/ ConnectMiss(a, o)
     \/ \E e \in Ids : EstablishmentStep(e)
     \/ \E e \in Ids : ErrorEvent(e) \/ DisconnectedEvent(e) \/ ReconnectedEvent(e)
     \/ \E n \in Names : CloseConnection(n) \/ CloseResolves(n) \/ CloseRejects(n)
     \/ ResetConnectorState
     \/ Signal
     \/ ShutdownExits

SpecShutdown == Init /\ [][NextShutdown]_vars

\* the arguments of the batch entries, all in one environment
aGood == ConnectArgs(uGood, <<>>, NoDriverOptions, "production")
aBadTarget == ConnectArgs(uNoDb, <<>>, NoDriverOptions, "production")
aBadOptions == ConnectArgs(uGood, <<>>, [NoDriverOptions EXCEPT !.ssl = "false"], "production")
\* the batches: empty, duplicate names, a target that fails validateURI,
\* two good entries, an entry whose options connect refuses, and a batch
\* of one entry
Batches ==
  {<<>>,
   <<Entry(DEFAULT_CONNECTION_NAME, aGood, 1), Entry(DEFAULT_CONNECTION_NAME, aGood, 2)>>,
   <<Entry(DEFAULT_CONNECTION_NAME, aGood, 1), Entry("b", aBadTarget, 1)>>,
   <<Entry(DEFAULT_CONNECTION_NAME, aGood, 2), Entry("b", aGood, 1)>>,
   <<Entry(DEFAULT_CONNECTION_NAME, aGood, 1), Entry("b", aBadOptions, 1)>>,
   <<Entry("b", aGood, 1)>>}

\* connect and connectMultiDb calls, establishments and the closes of a
\* rollback
NextMulti ==
  \/ ~Urgent /\ \E o \in LifecycleOptions : ConnectHit(aGood, o) \/ ConnectMiss(aGood, o)
  \/ ~Urgent /\ \E e \in Ids : EstablishmentStep(e)
  \/ ~Urgent /\ \E n \in Names : CloseResolves(n) \/ CloseRejects(n)
  \/ ~Urgent /\ \E b \in Batches : MultiStart(b)
  \/ ~Urgent /\ CloseAllReturns
  \/ MultiConnect
  \/ MultiResolves
  \/ MultiFails
  \/ MultiCleanup
  \/ MultiRejects

SpecMulti == Init /\ [][NextMulti]_vars

\* connect, the driver's events, closeConnection and getPoolStats calls
NextStats ==
  \/ \E a \in ValidArgs, o \in LifecycleOptions : ConnectHit(a, o) \/ ConnectMiss(a, o)
  \/ \E e \in Ids : EstablishmentStep(e)
  \/ \E e \in Ids : ErrorEvent(e) \/ DisconnectedEvent(e) \/ ReconnectedEvent(e)
  \/ \E n \in Names : CloseConnection(n) \/ CloseResolves(n) \/ CloseRejects(n)
  \/ GetPoolStats

SpecStats == Init /\ [][NextStats]_vars

\* connect calls for the default name and for a name that is a key of
\* Object.prototype
MonitorOptions == {UserOptions("", 2, 0, TRUE), UserOptions("__proto__", 1, 0, FALSE)}

\* connect, the driver's events and the monitoring timer
NextMonitor ==
  \/ \E a \in ValidArgs, o \in MonitorOptions : ConnectHit(a, o) \/ ConnectMiss(a, o)
  \/ \E e \in Ids : EstablishmentStep(e)
  \/ \E e \in Ids : ErrorEvent(e) \/ DisconnectedEvent(e) \/ ReconnectedEvent(e)
  \/ StartConnectionMonitoring
  \/ MonitorTick

SpecMonitor == Init /\ [][NextMonitor]_vars

\* pool and buffer sizes around the two thresholds
SizedOptions ==
  {[o EXCEPT !.maxPoolSize = p, !.bufferMaxEntries = b] :
     o \in DriverOptions, p \in {0, 100, 101}, b \in {0, 1000, 1001}}

\* one call of validateURI or validateOptions on every sample input
InitValidators ==
  /\ Start
  /\ probe \in
       {[pc |-> "target", target |-> t, allowedHosts |-> l, env |-> v, result |-> NewResult] :
          t \in Targets, l \in AllowLists, v \in Modes}
       \cup {[pc |-> "options", options |-> o, env |-> v, result |-> NewResult] :
                o \in SizedOptions, v \in Modes}

NextValidators == ValidateURICall \/ ValidateOptionsCall

SpecValidators == InitValidators /\ [][NextValidators]_vars

\* pairs of targets that both embed credentials and differ in them only: a
\* user with a password against the user alone and against the user with
\* a password that starts with digits
InitCredentials ==
  /\ Start
  /\ probe \in
       {[pc |-> "pair", target |-> t, creds |-> c, allowedHosts |-> l, env |-> "production",
         a |-> NewResult, b |-> NewResult, thrownA |-> NoError, thrownB |-> NoError] :
          t \in {x \in Targets : x.creds = sUsrPwd},
          c \in {<<"u", "s", "r", "@">>, <<"u", "s", "r", ":", "9", "9", "9", "9", "9", "x", "@">>},
          l \in AllowLists}

NextCredentials == ValidatePair

SpecCredentials == InitCredentials /\ [][NextCredentials]_vars

\* ============================================================== properties
\* the retry loop of record e has not settled its promise
InFlight(e) == task[e].pc \in {"dial", "wait", "onConnect", "onError", "delay"}
\* the establishments in flight for name n
InFlightFor(n) == {e \in Ids : InFlight(e) /\ info[e].connectionName = n}
\* the connect call a step makes: calls only grows by a connect call
NewCalls == IF Cardinality(calls') > Cardinality(calls) THEN calls' \ calls ELSE {}
\* the calls a step resolves
NewlyResolved == {c \in calls' : c.kind = "ok" /\ c \notin calls}
\* every call that awaits one record's promise gets that promise's outcome
SameOutcome ==
  \A c, d \in calls : c.rid = d.rid => c.kind = d.kind /\ c.handle = d.handle /\ c.error = d.error
\* a closeConnection(n) call returns in this step: after the awaited
\* close(), or at once for a record that holds no handle yet
CloseReturns(n) ==
  \/ closeTask[n].pc = "closing" /\ closeTask'[n].pc = "idle"
  \/ /\ MapHas(cache, n)
     /\ conn[MapGet(cache, n)] = NoHandle
     /\ info[MapGet(cache, n)].state # "disconnecting"
     /\ info'[MapGet(cache, n)].state = "disconnecting"

\* C1: a connect call for a name made while an establishment for that name
\* is in flight starts no retry loop and no dial: it joins the record of that
\* establishment, and all calls on one record settle alike, on success with
\* the same handle.
C1_SecondConnectJoins ==
  [][/\ \A c \in NewCalls :
          LET n == info'[c.rid].connectionName
          IN InFlightFor(n) # {} =>
               /\ ~c.creator
               /\ c.rid \in InFlightFor(n)
               /\ task' = task /\ handle' = handle /\ nextId' = nextId
     /\ SameOutcome']_vars

\* C2: in every reachable state at most one establishment is in flight for
\* a connection name.
C2_OneEstablishmentPerName ==
  \A n \in Names : Cardinality(InFlightFor(n)) <= 1

\* C3: when the last attempt of an establishment fails, every call awaiting
\* it is rejected and the cache then holds no record for the name, and no
\* cached record ever carries a failed establishment.
C3_FailureLeavesNoRecord ==
  [][/\ \A e \in Ids :
          InFlight(e) /\ task'[e].pc = "rejected" =>
            /\ \A c \in calls' : c.rid = e => c.kind = "err"
            /\ info[e].connectionName \notin getPoolStats'.connectionNames
     /\ \A x \in cache' : task'[x.rid].pc # "rejected"]_vars

\* the arguments of a connect call that validateURI or validateOptions
\* reports an error for
HasValidationError(a) ==
  UriValidation[a].errors # <<>> \/ OptionsValidation[a].errors # <<>>

\* C4: a connect call whose arguments fail validateURI or validateOptions
\* rejects with a validation error that lists the errors, dials nothing and
\* leaves the cache and every record as they were.
C4_InvalidArgumentsRejected ==
  [][\A a \in AllArgs, o \in LifecycleOptions :
        HasValidationError(a) /\ Connect(a, o) =>
          /\ refused'.text \in {"Security validation failed", "Options validation failed"}
          /\ refused'.detail # <<>>
          /\ refused'.detail \in {UriValidation[a].errors, OptionsValidation[a].errors}
          /\ cache' = cache /\ gen' = gen
          /\ task' = task /\ handle' = handle /\ nextId' = nextId
          /\ info' = info /\ conn' = conn /\ calls' = calls]_vars

\* C4 witness: a call was refused while a record was cached
C4_Witness == refused # NoError /\ cache # {}

\* C5: when a closeConnection(name) call returns, the cache holds no record
\* for name, whether close() succeeded or failed.
C5_CloseRemovesRecord ==
  [][\A n \in Names : CloseReturns(n) => ~MapHas(cache', n)]_vars

\* C6: in every reachable state a cached record whose state is connected
\* holds a handle, and that handle's readyState is 1.
C6_ConnectedHasReadyHandle ==
  \A x \in cache :
    info[x.rid].state = "connected" =>
      conn[x.rid] # NoHandle /\ ReadyStateOf(conn[x.rid]) = 1

\* C7: the cache never holds two records for one name; a connect call for a
\* name that has a record adds no record and awaits that record's promise;
\* every resolved call returned the handle of its record, so two resolved
\* calls on one record returned the same handle.
C7_OneRecordPerName ==
  [][/\ getPoolStats'.totalConnections = Cardinality(getPoolStats'.connectionNames)
     /\ \A c \in NewCalls :
          LET n == info'[c.rid].connectionName
          IN MapHas(cache, n) =>
               ~c.creator /\ c.rid = MapGet(cache, n) /\ cache' = cache
     /\ \A c \in calls' : c.kind = "ok" => c.handle # NoHandle /\ c.handle = conn'[c.rid]]_vars

\* C7 witness: two connect calls for one name, the second a cache hit, have
\* both resolved and the name's record is the only one cached
C7_Witness ==
  \E c, d \in calls, x \in cache :
    /\ c.creator /\ ~d.creator /\ c.rid = x.rid /\ d.rid = x.rid
    /\ c.kind = "ok" /\ d.kind = "ok" /\ c.handle = d.handle
    /\ getPoolStats.totalConnections = 1

\* C8: isConnected(name) is true exactly when a record for name is cached,
\* its handle's readyState is 1 and its state is connected; it is false for
\* a name no connect call was made for, and false when closeConnection(name)
\* returns.
C8_IsConnectedExact ==
  [][\A n \in Names :
        /\ isConnected(n)' =
             (/\ MapHas(cache', n)
              /\ ReadyStateOf(getConnection(n))' = 1
              /\ getConnectionInfo(n)'.state = "connected")
        /\ (\A e \in Ids : info'[e].connectionName # n) => ~isConnected(n)'
        /\ CloseReturns(n) => ~isConnected(n)']_vars

\* C9: when a connect call for name resolves, getConnectionInfo(name) has
\* state connected and connectedAt set; when closeConnection(name) returns,
\* getConnectionInfo(name) is null.
C9_InfoRoundTrip ==
  [][/\ \A c \in NewlyResolved :
          LET n == info[c.rid].connectionName
          IN /\ getConnectionInfo(n)'.state = "connected"
             /\ getConnectionInfo(n)'.connectedAt
     /\ \A n \in Names : CloseReturns(n) => getConnectionInfo(n)' = NoInfo]_vars

C16_HandlersRegisteredOnce == handlerRegs <= 1

\* the driver emits the named event on the handle of record e
Emits(e, ev) ==
  CASE ev = "error" -> ErrorEvent(e) \/ ErrorEventThrows(e)
    [] ev = "disconnected" -> DisconnectedEvent(e) \/ DisconnectedEventThrows(e)
    [] ev = "reconnected" -> ReconnectedEvent(e) \/ ReconnectedEventThrows(e)
\* the listener of record e invoked callback cb in this step, if the
\* connect call passed callbacks
Invoked(e, cb) == task[e].cb => fired' = [cb |-> cb, rid |-> e]
\* no call awaits the promise of record e
NobodyAwaits(e) == \A c \in calls : c.rid = e => c.kind # "pending"

C12_CallbackThrowIsContained ==
  [][/\ threw' # threw => ~threw'.escaped
     /\ \A e \in Ids :
          /\ OnConnectThrows(e) => Resolve(e, info[e], handle[e].id) /\ handle' = handle
          /\ OnErrorThrows(e) => AfterOnError(e, info[e], task[e].error) /\ handle' = handle
          /\ ErrorEventThrows(e) =>
               info' = [info EXCEPT ![e].state = "error",
                                    ![e].lastError = DriverError("connection error", 0)]
          /\ DisconnectedEventThrows(e) => info' = [info EXCEPT ![e].state = "disconnected"]
          /\ ReconnectedEventThrows(e) =>
               info' = [info EXCEPT ![e].state = "connected", ![e].connectedAt = TRUE]
          /\ (ErrorEventThrows(e) \/ DisconnectedEventThrows(e) \/ ReconnectedEventThrows(e))
               => UNCHANGED <<cache, conn, task, calls>>]_vars
\* an onConnect callback threw during connect and the call resolved with
\* the handle of the first attempt
C12_Witness ==
  \E e \in Ids :
    /\ threw = [cb |-> "onConnect", rid |-> e, escaped |-> FALSE]
    /\ task[e].pc = "resolved"
    /\ task[e].dials = 1
    /\ \E c \in calls : c.rid = e /\ c.kind = "ok" /\ c.handle = Handle(e, 1)

\* the healthCheck call of this step returned the 'not found' result
ReportsNotFound(n) == health'.pc = "done" /\ health'.result = NotFound(n)

\* C19: healthCheck(name) returns the 'not found' result exactly when the
\* cache holds no record for name; for a cached name, in any state,
\* connecting included, it never reports 'not found'
C19_NotFoundIffNoRecord ==
  [][\A n \in Names : HealthCheck(n) => (ReportsNotFound(n) <=> ~MapHas(cache, n))]_vars

\* the records, handles and calls that healthCheck must leave alone
Records == <<cache, gen, info, conn, task, handle, calls, closeTask>>

\* C20: healthCheck never throws and never changes a record: it calls
\* ping() only on a handle whose readiness is 1, returns isHealthy false
\* without a probe otherwise, and turns a failing probe into a result with
\* isHealthy false that carries the exception's message
C20_HealthCheckContained ==
  [][/\ \A n \in Names : HealthCheck(n) =>
          /\ UNCHANGED Records
          /\ health'.pc \in {"ping", "done"}
          /\ health'.pc = "ping" => ReadyStateOf(getConnection(n)) = 1
          /\ health'.pc = "done" =>
               /\ ~health'.result.isHealthy
               /\ ~health'.result.probed
               /\ ReadyStateOf(getConnection(n)) # 1
     /\ PingResolves \/ PingRejects => UNCHANGED Records /\ health'.pc = "done"
     /\ PingRejects => ~health'.result.isHealthy /\ health'.result.error = PingError
     /\ PingResolves => health'.result.isHealthy]_vars
\* a probe on a connected handle failed and healthCheck returned it as a
\* result, after an earlier step in which the record left state connected
C20_Witness ==
  /\ health.pc = "done"
  /\ health.result.probed
  /\ ~health.result.isHealthy
  /\ health.result.error = PingError
  /\ health.result.state = "error"

\* cleanup() is called in this step
CleanupCalled == CloseAllStart("cleanup")
\* cleanup() resolves in this step: after the awaited closes, or in the step
\* of the call when no cached record holds a handle
CleanupResolves ==
  \/ bulk.pc = "await" /\ bulk.kind = "cleanup" /\ bulk'.pc = "idle"
  \/ CleanupCalled /\ bulk'.pc = "idle"
\* close() has been called on the handle that record e holds
CloseRequested(e) == handle[conn[e].est].closeRequested

\* C18: after cleanup() resolves with no connect running concurrently,
\* close has been requested on every handle cached when it was called and
\* no record remains, also when a close failed: totalConnections is 0 and
\* isConnected(n) is false for every name, read from a fresh empty cache
C18_CleanupLeavesNothing ==
  [][/\ CleanupCalled =>
          \A x \in cache : conn[x.rid] # NoHandle => CloseRequested(x.rid)'
     /\ \A e \in Ids : conn[e] # NoHandle /\ CloseRequested(e) => CloseRequested(e)'
     /\ (CleanupResolves /\ \A e \in Ids : ~InFlight(e)) =>
          /\ getPoolStats'.totalConnections = 0
          /\ \A n \in Names : ~isConnected(n)'
          /\ gen' = gen + 1
          /\ cache' = {}]_vars
\* cleanup() has resolved after the close of a cached handle failed: the
\* handle is still open and no record is left
C18_Witness ==
  /\ gen > 0
  /\ bulk.pc = "idle"
  /\ cache = {}
  /\ \A n \in Names : closeTask[n].pc = "idle"
  /\ \A e \in Ids : ~InFlight(e)
  /\ \E e \in Ids : conn[e] # NoHandle /\ CloseRequested(e) /\ ~handle[conn[e].est].closed
                    /\ handle[conn[e].est].readyState = 1

\* C15: in production every dial uses effective options in which ssl and
\* tls are enabled and tlsAllowInvalidCertificates and
\* tlsAllowInvalidHostnames are not, whatever options the caller passed
C15_ProductionDialsSecure ==
  (probe.pc = "dial" /\ probe.env = "production") =>
    /\ probe.effective.ssl = "true"
    /\ probe.effective.tls = "true"
    /\ probe.effective.tlsAllowInvalidCertificates # "true"
    /\ probe.effective.tlsAllowInvalidHostnames # "true"

\* process.exit is called in this step
Exits == proc.pc # "exited" /\ proc'.pc = "exited"
\* the records cached with a handle when the signal arrived: those of the
\* pending shutdown, or those cached now when signal and exit are one step
CachedAtSignal ==
  IF proc.pc = "shutdown" THEN proc.closePromises
  ELSE {x.rid : x \in {y \in cache : conn[y.rid] # NoHandle}}

\* C17: when a termination signal arrives after a connect call, the
\* process exits only after close has been requested on the handle of
\* every record cached at that moment and each of those closes has settled
C17_ExitAfterCloses ==
  [][Exits =>
       \A e \in CachedAtSignal :
         /\ handle'[conn[e].est].closeRequested
         /\ \A n \in Names :
              ~(closeTask'[n].pc = "closing" /\ closeTask'[n].grp = "bulk"
                /\ closeTask'[n].rid = e)]_vars
\* the process exited after closing two cached handles, one of whose
\* closes failed
C17_Witness ==
  /\ proc.pc = "exited"
  /\ Cardinality(proc.closePromises) = 2
  /\ \A e \in proc.closePromises : handle[conn[e].est].closeRequested
  /\ \E e \in proc.closePromises : ~handle[conn[e].est].closed
  /\ \E e \in proc.closePromises : handle[conn[e].est].closed

\* the batches connectMultiDb must refuse: empty, a repeated name, or an
\* entry whose target fails validateURI
Refusable(b) == Len(b) = 0 \/ ~NamesUnique(b) \/ BadTargets(b) # {}

\* C13: connectMultiDb rejects without any dial and without changing the
\* cache when the list is empty, when two entries have the same name, or
\* when the target of any entry fails validation
C13_BadBatchRejectedUntouched ==
  [][\A b \in Batches :
       (MultiStart(b) /\ Refusable(b)) =>
         /\ multi'.pc = "rejected"
         /\ multi'.error # NoError
         /\ UNCHANGED <<cache, gen, info, conn, task, handle, calls, nextId>>]_vars
\* a batch with a repeated name was rejected while a record of an earlier
\* connect stayed cached and no establishment was added
C13_Witness ==
  /\ multi.pc = "rejected"
  /\ multi.error = ValidationError("Connection names must be unique", <<>>)
  /\ cache # {}
  /\ nextId = 2

\* C14: when an entry of a batch fails to connect, connectMultiDb rejects
\* with an error naming that entry, and from then on no record of the batch
\* is cached and no handle of the batch is open without a close requested
\* on it, entries still in flight at the first failure included
C14_FailedBatchRolledBack ==
  (multi.pc = "rejected" /\ multi.failed # "") =>
    /\ multi.error = ValidationError("Failed to connect to {name}", <<multi.failed>>)
    /\ \A i \in 1..Len(multi.rids) :
         LET e == multi.rids[i]
         IN e # 0 =>
              /\ \A x \in cache : x.rid # e
              /\ handle[e].id # NoHandle => handle[e].closeRequested

\* the handle stored in the record cached as x is ready
HandleReady(x) ==
  /\ conn[x.rid] # NoHandle
  /\ handle[conn[x.rid].est].id = conn[x.rid]
  /\ handle[conn[x.rid].est].readyState = 1
\* the cached records in state st
InState(st) == {x \in cache : info[x.rid].state = st}

\* C21: getPoolStats() returns totalConnections = the number of cached
\* records, activeConnections = the number of records whose handle is
\* ready, pendingConnections = the number in state connecting,
\* failedConnections = the number in state error and connectionNames = the
\* cached names, and the call leaves every record unchanged
C21_PoolStatsExact ==
  [][GetPoolStats =>
       /\ probe'.result.totalConnections = Cardinality({x.name : x \in cache})
       /\ probe'.result.activeConnections = Cardinality({x \in cache : HandleReady(x)})
       /\ probe'.result.pendingConnections = Cardinality(InState("connecting"))
       /\ probe'.result.failedConnections = Cardinality(InState("error"))
       /\ probe'.result.connectionNames = {x.name : x \in cache}
       /\ UNCHANGED Records]_vars
\* a call returned one record connecting and one in state error whose
\* handle is still ready
C21_Witness ==
  /\ probe.pc = "stats"
  /\ probe.result.totalConnections = 2
  /\ probe.result.activeConnections = 1
  /\ probe.result.pendingConnections = 1
  /\ probe.result.failedConnections = 1

\* C22: after startConnectionMonitoring, every invocation of the callback
\* for a name after the first carries an isHealthy value different from
\* the one delivered for that name before it
C22_MonitorReportsChanges ==
  \A n \in Names :
    \A i \in 1..Len(monitor.log[n]) :
      i > 1 => monitor.log[n][i] # monitor.log[n][i - 1]

\* a validator call has returned its result
Returned == probe.pc \in {"validated", "checked"}

\* C23: validateURI and validateOptions return a result for every input, in
\* which isValid is false exactly when errors is not empty; warnings alone
\* never make isValid false
C23_InvalidIffErrors ==
  Returned =>
    /\ probe.result.isValid = (probe.result.errors = <<>>)
    /\ (probe.result.warnings # <<>> /\ probe.result.errors = <<>>) => probe.result.isValid
\* a result with warnings and no error, and valid
C23_Witness ==
  /\ probe.pc = "validated"
  /\ probe.result.warnings # <<>>
  /\ probe.result.errors = <<>>
  /\ probe.result.isValid


\* the call validated a target whose scheme is neither mongodb nor mongodb+srv
ForeignScheme ==
  /\ probe.pc = "validated"
  /\ probe.target.scheme \notin {sMongodb, sMongodbSrv}
\* some error of the result names the scheme of the target
NamesScheme ==
  \E i \in 1..Len(probe.result.errors) :
    /\ probe.result.errors[i].text = "Invalid protocol: {arg}. Allowed: mongodb, mongodb+srv"
    /\ probe.result.errors[i].arg = probe.target.scheme \o <<":">>
\* the only error is the one of a structural pre-check or of the failed parse
StructuralRejection ==
  /\ Len(probe.result.errors) = 1
  /\ probe.result.errors[1].text \in
       {"Invalid URI format: malformed URI with credentials but no protocol",
        "Invalid URI format: missing hostname after credentials",
        "Invalid URI format: invalid port number",
        "Invalid URI format: Invalid URL"}

\* C24 (as stated): a target whose scheme is neither mongodb nor mongodb+srv
\* is invalid with an error that names the scheme, whatever its credentials,
\* port and path
C24_SchemeAlwaysNamed == ForeignScheme => ~probe.result.isValid /\ NamesScheme
\* C24 (amended): such a target is always invalid, and an error names its
\* scheme unless a structural pre-check or the URL parse rejected it first
C24_ForeignSchemeRejected ==
  ForeignScheme => ~probe.result.isValid /\ (NamesScheme \/ StructuralRejection)
\* an http target with credentials, a port and a path, rejected by name
C24_Witness ==
  /\ ForeignScheme /\ NamesScheme
  /\ probe.target.creds # <<>> /\ probe.target.port # <<>> /\ probe.target.tail # <<>>


\* host is name.<domain> for some non-empty name
StrictSubdomain(host, domain) ==
  \E k \in 1..Len(host) : Drop(host, k) = <<".">> \o domain
\* the allow-list entries admit the host: an exact entry equals it, a
\* wildcard entry *.<domain> has it as a strict subdomain
Listed(host, allowedHosts) ==
  \E i \in 1..Len(allowedHosts) :
    IF Take(allowedHosts[i], 2) = <<"*", ".">>
    THEN StrictSubdomain(host, Drop(allowedHosts[i], 2))
    ELSE host = allowedHosts[i]
\* the host of a composed target: the host part of its authority, and none
\* when the target has no "//" and so no authority
HostOf(t) == IF t.sep = sSep THEN t.host ELSE <<>>
\* the error that reports a host outside the allow-list
NotListedError(host) ==
  \E i \in 1..Len(probe.result.errors) :
    /\ probe.result.errors[i].text = "Host {arg} is not in the allowed hosts list"
    /\ probe.result.errors[i].arg = host
\* the call validated, against a non-empty allow-list, a target that is
\* valid without one
OtherwiseValid ==
  /\ probe.pc = "validated"
  /\ probe.allowedHosts # <<>>
  /\ validateURI(Compose(probe.target), <<>>, probe.env).isValid

\* C25: with a non-empty allow-list an otherwise valid target passes exactly
\* when its host equals a listed host or is a strict subdomain of a listed
\* wildcard; the bare domain of a wildcard and a host that continues after
\* the domain are rejected with the not-in-allow-list error
C25_AllowListExact ==
  OtherwiseValid =>
    /\ probe.result.isValid = Listed(HostOf(probe.target), probe.allowedHosts)
    /\ ~Listed(HostOf(probe.target), probe.allowedHosts) => NotListedError(HostOf(probe.target))
\* the bare domain against the wildcard entry, rejected
C25_Witness ==
  /\ OtherwiseValid
  /\ probe.allowedHosts = <<(<<"*", ".">> \o sDbIo)>>
  /\ HostOf(probe.target) = sDbIo
  /\ ~probe.result.isValid


\* the string s holds the string p at some position
Holds(s, p) == \E i \in 1..Len(s) : i + Len(p) - 1 <= Len(s) /\ SubSeq(s, i, i + Len(p) - 1) = p
\* the call validated a target that holds javascript: or data: somewhere
HoldsPattern ==
  /\ probe.pc = "validated"
  /\ Holds(Compose(probe.target), sJavascript) \/ Holds(Compose(probe.target), sData)

\* C26: a target that holds javascript: or data: at any position is invalid,
\* whichever check or parse step it reaches first
C26_PatternsRejected == HoldsPattern => ~probe.result.isValid
\* a mongodb target with the pattern in its path, which passes every
\* structural check and the parse, rejected by the pattern check alone
C26_Witness ==
  /\ HoldsPattern
  /\ probe.target.scheme = sMongodb /\ probe.target.creds = <<>>
  /\ probe.result.errors = <<Msg("Potentially malicious URI detected", <<>>)>>
T26a == ~(HoldsPattern /\ probe.result.errors = <<Msg("Invalid URI format: Invalid URL", <<>>)>>)
T26b == ~(HoldsPattern /\ probe.target.creds # <<>> /\ probe.target.scheme = sMongodb /\ Len(probe.result.errors) = 1 /\ probe.target.tail = <<"/", "a", "p", "p">>)


\* the call checked options that ask for an insecure connection
Insecure(options) ==
  \/ options.ssl = "false" \/ options.tls = "false"
  \/ options.tlsAllowInvalidCertificates = "true"
  \/ options.tlsAllowInvalidHostnames = "true"
\* the messages of a list of errors or warnings
Texts(list) == {list[i].text : i \in 1..Len(list)}

\* C27: validateOptions reports an error for ssl=false, tls=false,
\* tlsAllowInvalidCertificates=true or tlsAllowInvalidHostnames=true exactly
\* in production, and reports a pool above 100 or a buffer above 1000 as a
\* warning, which leaves isValid as it is, in every mode
C27_OptionsErrorsInProductionOnly ==
  probe.pc = "checked" =>
    LET o == probe.options
        r == probe.result
    IN /\ (r.errors # <<>>) = (probe.env = "production" /\ Insecure(o))
       /\ ("SSL/TLS must be enabled in production" \in Texts(r.errors))
            = (probe.env = "production" /\ (o.ssl = "false" \/ o.tls = "false"))
       /\ ("Invalid certificates should not be allowed in production" \in Texts(r.errors))
            = (probe.env = "production" /\ o.tlsAllowInvalidCertificates = "true")
       /\ ("Invalid hostnames should not be allowed in production" \in Texts(r.errors))
            = (probe.env = "production" /\ o.tlsAllowInvalidHostnames = "true")
       /\ ("Very large connection pool size detected" \in Texts(r.warnings)) = (o.maxPoolSize > 100)
       /\ ("Very large buffer size detected" \in Texts(r.warnings)) = (o.bufferMaxEntries > 1000)
       /\ r.isValid = ~(probe.env = "production" /\ Insecure(o))
\* insecure and oversized options outside production: two warnings, valid
C27_Witness ==
  /\ probe.pc = "checked"
  /\ probe.env = "development"
  /\ Insecure(probe.options)
  /\ Len(probe.result.warnings) = 2
  /\ probe.result.isValid


\* the keys of the driver options: those that hold a flag and those that
\* hold a number
FlagKeys == {"ssl", "tls", "tlsAllowInvalidCertificates", "tlsAllowInvalidHostnames",
             "retryWrites", "retryReads"}
NumberKeys == {"maxPoolSize", "serverSelectionTimeoutMS", "socketTimeoutMS",
               "connectTimeoutMS", "heartbeatFrequencyMS"}
\* the caller's options hold the key
Supplied(options, k) == IF k \in FlagKeys THEN options[k] # "unset" ELSE options[k] # 0
\* the value a key has by default: a flag that must be on, a flag that must
\* not be on, or a number
IsDefault(k, v) ==
  CASE k \in {"ssl", "tls", "retryWrites", "retryReads"} -> v = "true"
    [] k \in {"tlsAllowInvalidCertificates", "tlsAllowInvalidHostnames"} -> v # "true"
    [] k = "maxPoolSize" -> v = 10
    [] OTHER -> v = 30000

\* C28: the options handed to the driver are the secure defaults overlaid by
\* the caller's: a key the caller supplies has the caller's value, a key the
\* caller omits has its default, in every mode
C28_DefaultsOverlaid ==
  probe.pc = "dial" =>
    \A k \in FlagKeys \cup NumberKeys :
      IF Supplied(probe.options, k)
      THEN probe.effective[k] = probe.options[k]
      ELSE IsDefault(k, probe.effective[k])
\* development, nothing supplied but a pool size
C28_Witness ==
  /\ probe.pc = "dial"
  /\ probe.env = "development"
  /\ probe.options = [NoDriverOptions EXCEPT !.maxPoolSize = 50]
  /\ probe.effective.maxPoolSize = 50
  /\ probe.effective.ssl = "true"


\* the user name and the password embedded in credentials user[:password]@
UserOf(creds) ==
  LET body == Take(creds, Len(creds) - 1)
  IN IF IndexOf(body, ":") = 0 THEN body ELSE Take(body, IndexOf(body, ":") - 1)
PasswordOf(creds) ==
  LET body == Take(creds, Len(creds) - 1)
  IN IF IndexOf(body, ":") = 0 THEN <<>> ELSE Drop(body, IndexOf(body, ":"))
\* an error message of the list quotes the non-empty string s
Quotes(errors, s) == s # <<>> /\ \E i \in 1..Len(errors) : Holds(errors[i].arg, s)
\* both targets of the pair were validated
Compared == probe.pc = "compared"

\* C29: two targets that differ only in their embedded credentials get the
\* same error messages from validateURI and from connect, and no message
\* holds the user name or the password
C29_CredentialsDoNotShow ==
  Compared =>
    /\ probe.a.errors = probe.b.errors
    /\ probe.thrownA = probe.thrownB
    /\ \A c \in {probe.target.creds, probe.creds} :
         /\ ~Quotes(probe.a.errors \o probe.b.errors, UserOf(c))
         /\ ~Quotes(probe.a.errors \o probe.b.errors, PasswordOf(c))


\* some connect call awaits the promise of record e
Awaited(e) == \E c \in calls : c.rid = e /\ c.kind = "pending"
\* the establishment of record e has resolved or rejected and nobody awaits it
Settled(e) == task[e].pc \in {"resolved", "rejected"} /\ ~Awaited(e)

\* C30: given that createConnection returns and callbacks return, every
\* connect call eventually settles: each wait for readiness ends by
\* resolving or rejecting, and no establishment dials more than maxRetries
\* times
C30_ConnectSettles ==
  /\ [](\A e \in Ids : task[e].dials <= task[e].maxRetries \/ task[e].dials = 0)
  /\ \A e \in Ids : Awaited(e) ~> Settled(e)
\* an establishment whose every attempt ran into the deadline has rejected
\* the calls that awaited it
C30_Witness ==
  \E e \in Ids :
    /\ Settled(e)
    /\ task[e].pc = "rejected" /\ task[e].dials = 3
    /\ info[e].lastError.text = "Connection timeout after {timeoutMs}ms"
    /\ \E c \in calls : c.rid = e /\ c.kind = "err"

\* the changes of state the state machine of a record admits
StateTransitions ==
  {<<"connecting", "connected">>, <<"connected", "disconnected">>, <<"connected", "error">>,
   <<"connected", "connecting">>, <<"connected", "disconnecting">>,
   <<"error", "disconnecting">>}
\* the step changes the state of the existing record e
StateChanges(e) == info[e].state # "none" /\ info'[e].state # info[e].state

\* C31: every change of a record's state is one of the six transitions of
\* the state machine; a record in disconnecting never returns to connected
\* and a record in disconnected changes state no more
C31_OnlyListedTransitions ==
  [][\A e \in Ids : StateChanges(e) => <<info[e].state, info'[e].state>> \in StateTransitions]_vars

\* the connect call that created record e resumes after its promise resolved
ConnectResumes(e) == task[e].pc # "resolved" /\ task'[e].pc = "resolved"

\* C32: a disconnected or error event delivered after the retry loop marked
\* the record connected and before connect resumes is still the record's
\* state when connect returns
C32_LastEventWins ==
  [][\A e \in Ids :
       ConnectResumes(e) /\ info[e].state \in {"disconnected", "error"}
         => info'[e].state = info[e].state]_vars

\* C33: connectedAt is set when a record becomes connected and cleared on
\* disconnect: a record in state disconnected has no connectedAt
C33_DisconnectedHasNoConnectedAt ==
  \A x \in cache : info[x.rid].state = "disconnected" => ~info[x.rid].connectedAt

\* an attempt of establishment e fails in this step
AttemptFails(e) == DialFails(e) \/ WaitError(e) \/ WaitTimeout(e)

\* C34: retryCount is 0 when the establishment starts, grows by one with
\* every failed attempt and with nothing else, so that a success at attempt
\* k leaves k - 1; error, disconnected and reconnected events leave it alone
C34_RetryCountCountsFailures ==
  [][\A e \in Ids :
       IF info[e].state = "none"
       THEN info'[e].retryCount = 0
       ELSE IF AttemptFails(e)
       THEN info'[e].retryCount = info[e].retryCount + 1
       ELSE info'[e].retryCount = info[e].retryCount]_vars
\* a record connected at its second attempt, after an error event
C34_Witness ==
  \E e \in Ids :
    /\ task[e].pc = "resolved" /\ task[e].dials = 2
    /\ info[e].retryCount = 1
    /\ info[e].state = "error"

\* the names of the batch of the connectMultiDb call
BatchNames == {multi.batch[i].name : i \in 1..Len(multi.batch)}
\* the records that were cached under a name outside the batch when
\* connectMultiDb was called
Bystanders == {x \in multi.before : x.name \notin BatchNames}

\* C35: when connectMultiDb rejects after a failed entry, every record that
\* was cached before the call under a name outside the batch is still
\* cached, not closing, and its handle has no close requested
C35_RollbackSparesOthers ==
  [][MultiRejects =>
       \A x \in Bystanders :
         /\ x \in cache'
         /\ info'[x.rid].state # "disconnecting"
         /\ ~handle'[x.rid].closeRequested]_vars

\* C36: getConnectionWithTimeout rejects only once timeoutMs has elapsed,
\* with a timeout error; for a name without a ready handle at call time it
\* does not reject before the timer has fired
C36_RejectsOnlyAtTimeout ==
  (probe.pc = "timed" /\ probe.outcome = "rejected") =>
    /\ probe.timerFired
    /\ probe.error = "Connection timeout after {timeoutMs}ms"

\* the establishment of record e fails for good in this step
EstablishmentFails(e) == task[e].pc # "rejected" /\ task'[e].pc = "rejected"

\* C37: the removal done when an establishment fails removes only the
\* record of that establishment: a record that a later connect created
\* under the same name stays cached
C37_FailureRemovesOwnRecord ==
  [][\A e \in Ids :
       EstablishmentFails(e) => \A x \in cache : x.rid # e => x \in cache']_vars

\* C38: no live handle is left without an owning record: when an
\* establishment completes, also after a close ran while it was in flight,
\* its handle is held by a cached record or has had close requested on it
C38_NoOrphanHandle ==
  [][\A e \in Ids :
       ConnectResumes(e) =>
         \/ \E x \in cache' : x.rid = e /\ conn'[e] = handle'[e].id
         \/ handle'[e].closeRequested]_vars

\* the outcome a call on record e has at the moment it is made
OutcomeOf(e) ==
  IF task[e].pc = "resolved" THEN "ok" ELSE IF task[e].pc = "rejected" THEN "err" ELSE "pending"

\* C39: a connect call with valid arguments for a name that has a cached
\* record starts no dial and changes nothing of that record, whatever the
\* record's state and the target given: it joins the establishment task the
\* first call for the name created
C39_CachedNameNeverDials ==
  [][\A c \in NewCalls :
       LET n == info'[c.rid].connectionName
       IN MapHas(cache, n) =>
            /\ c.rid = MapGet(cache, n) /\ ~c.creator
            /\ c.kind = OutcomeOf(c.rid)
            /\ c.kind = "ok" => c.handle = task[c.rid].result
            /\ UNCHANGED <<cache, info, conn, task, handle, nextId>>]_vars
\* a call that joined the record of the name while it was cached, resolved
\* with the record's handle, and the record is now closing
C39_Witness ==
  \E c \in calls, x \in cache :
    /\ ~c.creator /\ c.rid = x.rid /\ c.kind = "ok" /\ c.handle = conn[x.rid]
    /\ info[x.rid].state = "disconnecting"

\* the number of dials a connect with the given maxRetries makes when every
\* dial fails: maxRetries itself, 3 for 0 or unset, none for a negative one
DialsFor(maxRetries) ==
  IF maxRetries >= 1 THEN maxRetries ELSE IF maxRetries = 0 THEN 3 ELSE 0
\* the dials a retry loop that runs maxRetries attempts makes
LoopDials(maxRetries) == IF maxRetries >= 1 THEN maxRetries ELSE 0

\* C40: for every maxRetries a connect whose every dial fails rejects and
\* leaves no cached record, after exactly maxRetries dials when maxRetries
\* is at least 1, 3 dials when it is 0 or unset, and no dial when it is
\* negative
C40_DialsPerMaxRetries ==
  /\ [][\A a \in ValidArgs, o \in RetryLoopOptions :
          ConnectMiss(a, o) =>
            LoopDials(task'[nextId].maxRetries) = DialsFor(o.maxRetries)]_vars
  /\ [](\A e \in Ids :
          task[e].pc = "rejected" =>
            /\ task[e].dials = LoopDials(task[e].maxRetries)
            /\ \A x \in cache : x.rid # e
            /\ \A c \in calls : c.rid = e => c.kind = "err")
\* a connect with a negative maxRetries has rejected without a dial
C40_Witness ==
  \E e \in Ids :
    /\ task[e].pc = "rejected" /\ task[e].maxRetries < 0 /\ task[e].dials = 0
    /\ \E c \in calls : c.rid = e /\ c.kind = "err"

====
